---- MODULE Spec2Model ----
(***************************************************************************)
(* Model of the indexing pipeline of CodeSearchEngine                      *)
(* (src/src/shared/CodeSearchEngine.ts): the streaming chunker             *)
(* processFileWithStreaming, the index_local_project operation and the     *)
(* batched ingestion storeChunksInBatches.                                 *)
(*                                                                         *)
(* Strings are sequences of one-character strings, so that length, trim,   *)
(* concatenation and character replacement are computed as the code        *)
(* computes them.                                                          *)
(***************************************************************************)
EXTENDS Integers, Sequences, FiniteSets, TLC

(***************************************************************************)
(* Bounds of the model.                                                    *)
(***************************************************************************)
\* longest file, in lines, given to the chunker
MaxLines == 3
\* largest maxChunkSize argument given to the chunker
MaxChunkSizeArg == 3
\* largest batchSize argument given to storeChunksInBatches
MaxBatchSize == 2
\* number of index_local_project invocations in one behaviour
MaxInvocations == 2
\* latest reading of the wall clock
MaxClock == 1
\* largest number of texts given to one call of generate
MaxTexts == 3
\* largest number of records in the collection the read operations find
MaxRecords == 3
\* largest limit, and largest n_results, given to a search
MaxLimit == 2
\* longest path given to matchesPattern, in characters
MaxPathLen == 3
\* longest pattern given to matchesPattern, in characters
MaxPatternLen == 5
\* longest include list, and longest exclude list, given to getFilesToIndex
MaxPatterns == 2
\* longest project name given to sanitizeProjectId, in characters
MaxNameLen == 2

(***************************************************************************)
(* Program constants.                                                      *)
(***************************************************************************)
\* the hard per-line ceiling of processFileWithStreaming
LineLimit == 10000

(***************************************************************************)
(* Strings.                                                                *)
(***************************************************************************)
NL == <<"\n">>

\* the characters String.prototype.trim removes (those the model's files use)
IsWhitespace(c) == c \in {" ", "\t", "\n", "\r"}

\* String.prototype.trim: drop the whitespace at both ends
Trim(s) ==
    IF \A i \in 1..Len(s) : IsWhitespace(s[i])
    THEN <<>>
    ELSE LET first == CHOOSE i \in 1..Len(s) :
                          /\ ~IsWhitespace(s[i])
                          /\ \A j \in 1..(i - 1) : IsWhitespace(s[j])
             \* the number of whitespace characters at the end
             tail  == CHOOSE k \in 0..(Len(s) - 1) :
                          /\ ~IsWhitespace(s[Len(s) - k])
                          /\ \A j \in 0..(k - 1) : IsWhitespace(s[Len(s) - j])
         IN  SubSeq(s, first, Len(s) - tail)

\* a line of n copies of the character c
Repeat(c, n) == [i \in 1..n |-> c]

(***************************************************************************)
(* The streaming chunker, processFileWithStreaming.                        *)
(*                                                                         *)
(* Its local state is the record                                           *)
(*   [chunks, currentChunk, chunkIndex, lineCount]                         *)
(* and a chunk is [content, file_path, file_type, chunk_index].            *)
(***************************************************************************)
\* the state at the start of the promise executor
ChunkerInit ==
    [chunks |-> <<>>, currentChunk |-> <<>>, chunkIndex |-> 0, lineCount |-> 0]

\* the chunk object pushed by the 'line' and 'close' handlers
MakeChunk(buffer, relativePath, fileType, index) ==
    [content    |-> Trim(buffer),
     file_path  |-> relativePath,
     file_type  |-> fileType,
     chunk_index |-> index]

\* OnLine with the index advanced for a dropped line as well
OnLineCountingDropped(st, line, relativePath, fileType, maxChunkSize) ==
    LET counted == [st EXCEPT !.lineCount = @ + 1]
    IN  IF Len(line) > LineLimit
        THEN [counted EXCEPT !.chunkIndex = @ + 1]
        ELSE IF /\ Len(st.currentChunk) + Len(line) > maxChunkSize
                /\ Len(st.currentChunk) > 0
             THEN [counted EXCEPT
                      !.chunks = Append(@, MakeChunk(st.currentChunk, relativePath,
                                                     fileType, st.chunkIndex)),
                      !.chunkIndex = @ + 1,
                      !.currentChunk = line]
             ELSE [counted EXCEPT
                      !.currentChunk =
                          @ \o (IF st.currentChunk # <<>> THEN NL ELSE <<>>) \o line]

\* OnLine with the line that triggers a flush left out of the new buffer
OnLineLosingLine(st, line, relativePath, fileType, maxChunkSize) ==
    LET counted == [st EXCEPT !.lineCount = @ + 1]
    IN  IF Len(line) > LineLimit
        THEN counted
        ELSE IF /\ Len(st.currentChunk) + Len(line) > maxChunkSize
                /\ Len(st.currentChunk) > 0
             THEN [counted EXCEPT
                      !.chunks = Append(@, MakeChunk(st.currentChunk, relativePath,
                                                     fileType, st.chunkIndex)),
                      !.chunkIndex = @ + 1,
                      !.currentChunk = <<>>]
             ELSE [counted EXCEPT
                      !.currentChunk =
                          @ \o (IF st.currentChunk # <<>> THEN NL ELSE <<>>) \o line]

\* OnLine with the ceiling test written >= instead of >
OnLineDroppingAtLimit(st, line, relativePath, fileType, maxChunkSize) ==
    LET counted == [st EXCEPT !.lineCount = @ + 1]
    IN  IF Len(line) >= LineLimit
        THEN counted
        ELSE IF /\ Len(st.currentChunk) + Len(line) > maxChunkSize
                /\ Len(st.currentChunk) > 0
             THEN [counted EXCEPT
                      !.chunks = Append(@, MakeChunk(st.currentChunk, relativePath,
                                                     fileType, st.chunkIndex)),
                      !.chunkIndex = @ + 1,
                      !.currentChunk = line]
             ELSE [counted EXCEPT
                      !.currentChunk =
                          @ \o (IF st.currentChunk # <<>> THEN NL ELSE <<>>) \o line]

\* rl.on('line', ...)
OnLine(st, line, relativePath, fileType, maxChunkSize) ==
    LET counted == [st EXCEPT !.lineCount = @ + 1]
    IN  IF Len(line) > LineLimit
        THEN counted
        ELSE IF /\ Len(st.currentChunk) + Len(line) > maxChunkSize
                /\ Len(st.currentChunk) > 0
             THEN [counted EXCEPT
                      !.chunks = Append(@, MakeChunk(st.currentChunk, relativePath,
                                                     fileType, st.chunkIndex)),
                      !.chunkIndex = @ + 1,
                      !.currentChunk = line]
             ELSE [counted EXCEPT
                      !.currentChunk =
                          @ \o (IF st.currentChunk # <<>> THEN NL ELSE <<>>) \o line]

\* rl.on('close', ...): the value the promise resolves with
OnClose(st, relativePath, fileType) ==
    IF Trim(st.currentChunk) # <<>>
    THEN Append(st.chunks,
                MakeChunk(st.currentChunk, relativePath, fileType, st.chunkIndex))
    ELSE st.chunks

\* the chunker state after the first n lines of a file were delivered
RECURSIVE AfterLines(_, _, _, _, _)
AfterLines(fileLines, n, relativePath, fileType, maxChunkSize) ==
    IF n = 0
    THEN ChunkerInit
    ELSE OnLine(AfterLines(fileLines, n - 1, relativePath, fileType, maxChunkSize),
                fileLines[n], relativePath, fileType, maxChunkSize)

\* processFileWithStreaming on a stream that is read to its end
ProcessFileWithStreaming(fileLines, relativePath, fileType, maxChunkSize) ==
    OnClose(AfterLines(fileLines, Len(fileLines), relativePath, fileType,
                       maxChunkSize),
            relativePath, fileType)

(***************************************************************************)
(* The lines the chunker is driven with.  A file is a sequence of indices  *)
(* into this table.                                                        *)
(***************************************************************************)
LineTable ==
    << <<>>,
       <<" ">>,
       <<"a">>,
       <<"b", "c">>,
       <<" ", "d", " ">>,
       Repeat("x", LineLimit),
       Repeat("y", LineLimit + 1) >>

\* the files of at most n lines
FilesUpTo(n) == UNION {[1..k -> 1..Len(LineTable)] : k \in 0..n}

\* the text of the i-th line of file f
LineOf(f, i) == LineTable[f[i]]

\* the lines of file f as text
LinesOf(f) == [i \in 1..Len(f) |-> LineOf(f, i)]

ChunkerPath == <<"a", ".", "p", "y">>

(***************************************************************************)
(* Project identifiers and record ids.                                     *)
(***************************************************************************)
UpperCase ==
    <<"A", "B", "C", "D", "E", "F", "G", "H", "I", "J", "K", "L", "M",
      "N", "O", "P", "Q", "R", "S", "T", "U", "V", "W", "X", "Y", "Z">>

LowerCase ==
    <<"a", "b", "c", "d", "e", "f", "g", "h", "i", "j", "k", "l", "m",
      "n", "o", "p", "q", "r", "s", "t", "u", "v", "w", "x", "y", "z">>

DigitChars == <<"0", "1", "2", "3", "4", "5", "6", "7", "8", "9">>

\* the characters of a sequence of characters
CharsOf(s) == {s[i] : i \in 1..Len(s)}

\* String.prototype.toLowerCase, one character
ToLowerChar(c) ==
    IF c \in CharsOf(UpperCase)
    THEN LowerCase[CHOOSE i \in 1..Len(UpperCase) : UpperCase[i] = c]
    ELSE c

\* String.prototype.toLowerCase
ToLowerCase(s) == [i \in 1..Len(s) |-> ToLowerChar(s[i])]

\* SanitizeProjectId with a replace that is not global: only the first
\* character outside [a-z0-9] becomes "_"
SanitizeProjectIdFirstOnly(projectName) ==
    LET lower == ToLowerCase(projectName)
        Outside(i) == lower[i] \notin CharsOf(LowerCase) \cup CharsOf(DigitChars)
    IN  [i \in 1..Len(lower) |->
            IF Outside(i) /\ \A j \in 1..(i - 1) : ~Outside(j)
            THEN "_"
            ELSE lower[i]]

\* sanitizeProjectId: lower-case, then every character outside [a-z0-9]
\* becomes "_"
SanitizeProjectId(projectName) ==
    LET lower == ToLowerCase(projectName)
    IN  [i \in 1..Len(lower) |->
            IF lower[i] \in CharsOf(LowerCase) \cup CharsOf(DigitChars)
            THEN lower[i]
            ELSE "_"]

\* the decimal digits of a natural number, as template literals print it
RECURSIVE Decimal(_)
Decimal(n) ==
    IF n < 10
    THEN <<DigitChars[n + 1]>>
    ELSE Decimal(n \div 10) \o <<DigitChars[(n % 10) + 1]>>

\* `${projectId}_chunk_${i + idx}`
ChunkId(projectId, n) ==
    projectId \o <<"_", "c", "h", "u", "n", "k", "_">> \o Decimal(n)

(***************************************************************************)
(* The file system the index runs read.                                    *)
(***************************************************************************)
\* the one directory of the file system
RootDir == <<"/", "p">>

\* the regular files, in the order readdir enumerates them, with their lines
FileTable ==
    << [path  |-> RootDir \o <<"/", "a", ".", "p", "y">>,
        lines |-> << <<"b", "c">>, <<"b", "c">>, <<"a">> >>],
       [path  |-> RootDir \o <<"/", "b">>,
        lines |-> << <<"a">> >>],
       [path  |-> RootDir \o <<"/", "c", ".", "m", "d">>,
        lines |-> << <<" ">> >>] >>

\* what fs.stat finds at a path: "dir", "file", or "missing" (stat throws)
StatKind(p) ==
    IF p = RootDir THEN "dir"
    ELSE IF \E f \in 1..Len(FileTable) : FileTable[f].path = p THEN "file"
    ELSE "missing"

\* the project_path arguments: the directory, a regular file, a missing path
ProjectPaths == {RootDir, FileTable[2].path, <<"/", "x">>}

\* the project_name arguments; the first two have the same project id
ProjectNames == { <<"A", "-", "b">>, <<"a", " ", "b">>, <<"c">> }

\* the lists getFilesToIndex can return for the directory: the files that
\* the patterns keep, in enumeration order
DiscoveredLists ==
    {l \in UNION {[1..k -> 1..Len(FileTable)] : k \in 0..Len(FileTable)} :
        \A i, j \in 1..Len(l) : i < j => l[i] < l[j]}

\* path.relative(from, to) for a path to below the directory from
PathRelative(from, to) ==
    IF /\ Len(to) > Len(from) + 1
       /\ SubSeq(to, 1, Len(from) + 1) = from \o <<"/">>
    THEN SubSeq(to, Len(from) + 2, Len(to))
    ELSE to

\* path.basename
BaseName(p) ==
    IF "/" \in CharsOf(p)
    THEN LET slash == CHOOSE i \in 1..Len(p) :
                          /\ p[i] = "/"
                          /\ \A j \in (i + 1)..Len(p) : p[j] # "/"
         IN  SubSeq(p, slash + 1, Len(p))
    ELSE p

\* path.extname: from the last "." of the base name, "" if there is none or
\* if it is the first character of the base name
ExtName(p) ==
    LET base == BaseName(p)
    IN  IF "." \in CharsOf(base)
        THEN LET dot == CHOOSE i \in 1..Len(base) :
                            /\ base[i] = "."
                            /\ \A j \in (i + 1)..Len(base) : base[j] # "."
             IN  IF dot = 1 THEN <<>> ELSE SubSeq(base, dot, Len(base))
        ELSE <<>>

\* path.extname(filePath).slice(1) || 'txt'
FileExtension(filePath) ==
    IF Len(ExtName(filePath)) > 1
    THEN Tail(ExtName(filePath))
    ELSE <<"t", "x", "t">>

(***************************************************************************)
(* index_local_project: the body of the per-file loop.                     *)
(*                                                                         *)
(* The locals of one invocation are the record                             *)
(*   [pc, project_path, project_name, projectId, files, fileIdx, chunks,   *)
(*    processedFiles, i, failed, result]                                   *)
(* where fileIdx counts the files the loop is done with, i is the offset   *)
(* of storeChunksInBatches' loop and failed is the set of positions of     *)
(* the files whose processing threw.                                       *)
(***************************************************************************)
\* the values new Date() can read at n readings, one after the other, when
\* its last reading was from: time does not go backwards
ClockReads(from, n) ==
    {s \in [1..n -> from..MaxClock] : \A i, j \in 1..n : i < j => s[i] <= s[j]}

\* the fields index_local_project adds to the chunks of a file; new Date() is
\* read once for every chunk, nows[k] for the k-th
TagChunks(fileChunks, projectId, project_name, project_path, nows) ==
    [k \in 1..Len(fileChunks) |->
        [content      |-> fileChunks[k].content,
         file_path    |-> fileChunks[k].file_path,
         file_type    |-> fileChunks[k].file_type,
         chunk_index  |-> fileChunks[k].chunk_index,
         project_id   |-> projectId,
         project_name |-> project_name,
         project_path |-> project_path,
         source_type  |-> "local",
         indexed_at   |-> nows[k]]]

\* the chunks processFileWithStreaming resolves with for a file of the table
FileChunks(f, project_path, maxSize) ==
    ProcessFileWithStreaming(FileTable[f].lines,
                             PathRelative(project_path, FileTable[f].path),
                             FileExtension(FileTable[f].path),
                             maxSize)

\* one iteration with the file counted before it is processed
FileLoopBodyCountingFirst(loc, outcome, maxSize, nows) ==
    LET f == loc.files[loc.fileIdx + 1]
        fileChunks == FileChunks(f, loc.project_path, maxSize)
    IN  IF outcome = "ok"
        THEN [loc EXCEPT
                !.chunks = @ \o TagChunks(fileChunks, loc.projectId,
                                          loc.project_name, loc.project_path, nows),
                !.processedFiles = @ + 1,
                !.fileIdx = @ + 1]
        ELSE [loc EXCEPT
                !.processedFiles = @ + 1,
                !.failed = @ \cup {loc.fileIdx + 1},
                !.fileIdx = @ + 1]

\* one iteration of for (const filePath of files): outcome is "ok",
\* "stat_error" (fs.stat threw) or "stream_error" (the promise rejected);
\* nows are the readings of new Date(), one per chunk of the file
FileLoopBody(loc, outcome, maxSize, nows) ==
    LET f == loc.files[loc.fileIdx + 1]
        fileChunks == FileChunks(f, loc.project_path, maxSize)
    IN  IF outcome = "ok"
        THEN [loc EXCEPT
                !.chunks = @ \o TagChunks(fileChunks, loc.projectId,
                                          loc.project_name, loc.project_path, nows),
                !.processedFiles = @ + 1,
                !.fileIdx = @ + 1]
        ELSE [loc EXCEPT
                !.failed = @ \cup {loc.fileIdx + 1},
                !.fileIdx = @ + 1]

FileOutcomes == {"ok", "stat_error", "stream_error"}

(***************************************************************************)
(* storeChunksInBatches: one iteration of its loop.                        *)
(***************************************************************************)
Min(a, b) == IF a < b THEN a ELSE b

\* chunks.slice(i, i + batchSize)
BatchAt(allChunks, i, size) ==
    SubSeq(allChunks, i + 1, Min(i + size, Len(allChunks)))

\* BatchIds with the per-file chunk_index in the place of the position
BatchIdsByChunkIndex(allChunks, i, size, projectId) ==
    [idx \in 1..Len(BatchAt(allChunks, i, size)) |->
        ChunkId(projectId, BatchAt(allChunks, i, size)[idx].chunk_index)]

\* batch.map((_, idx) => `${projectId}_chunk_${i + idx}`)
BatchIds(allChunks, i, size, projectId) ==
    [idx \in 1..Len(BatchAt(allChunks, i, size)) |->
        ChunkId(projectId, i + (idx - 1))]

\* the document and the metadata stored for a chunk
StoredRecord(chunk) ==
    [document |-> chunk.content,
     metadata |-> [file_path    |-> chunk.file_path,
                   project_id   |-> chunk.project_id,
                   project_name |-> chunk.project_name,
                   project_path |-> chunk.project_path,
                   source_type  |-> chunk.source_type,
                   file_type    |-> chunk.file_type,
                   chunk_index  |-> chunk.chunk_index,
                   indexed_at   |-> chunk.indexed_at]]

\* CollectionAdd preceded by the removal of the other records of the batch's
\* project
CollectionAddReplacingProject(records, ids, batch) ==
    LET kept == {id \in DOMAIN records :
                    records[id].metadata.project_id # batch[1].project_id}
    IN  [id \in kept \cup {ids[k] : k \in 1..Len(ids)} |->
            IF \E k \in 1..Len(ids) : ids[k] = id
            THEN StoredRecord(batch[CHOOSE k \in 1..Len(ids) : ids[k] = id])
            ELSE records[id]]

\* collection.add({ids, documents, metadatas}) that succeeds: the records of
\* the collection afterwards.  The vector store is an external service; as
\* its contract is described (spec.md section 3), a record written under an
\* id already there replaces the older one.
CollectionAdd(records, ids, batch) ==
    [id \in DOMAIN records \cup {ids[k] : k \in 1..Len(ids)} |->
        IF \E k \in 1..Len(ids) : ids[k] = id
        THEN StoredRecord(batch[CHOOSE k \in 1..Len(ids) : ids[k] = id])
        ELSE records[id]]

\* the locals before the first statement of index_local_project
IdleLocals ==
    [pc |-> "idle", project_path |-> <<>>, project_name |-> <<>>,
     projectId |-> <<>>, files |-> <<>>, fileIdx |-> 0, chunks |-> <<>>,
     processedFiles |-> 0, i |-> 0, failed |-> {},
     result |-> [kind |-> "none"]]

\* the empty function, the records of a new collection
NoRecords == [id \in {} |-> id]

VARIABLES
    \* --- one call of processFileWithStreaming ---
    file,           \* the file being read, as line indices
    maxChunkSize,   \* the maxChunkSize argument
    chunks,         \* const chunks
    currentChunk,   \* let currentChunk
    chunkIndex,     \* let chunkIndex
    lineCount,      \* let lineCount: the number of 'line' events so far
    settled,        \* the promise: "pending", "resolved" or "rejected"
    \* --- index_local_project and the vector store ---
    batchSize,      \* the batchSize argument of storeChunksInBatches
    loc,            \* the locals of the current invocation
    store,          \* the collection: [exists, records], records by id
    clock,          \* the wall clock new Date() reads
    invocations,    \* number of invocations started so far
    storeBefore,    \* the store when the current invocation started
    addLog,         \* the collection.add calls of the current invocation
    \* --- one call of another operation ---
    call,           \* the operation, its arguments and what it reads
    ret             \* its locals and, once it returned, its result

chunkerVars ==
    <<file, maxChunkSize, chunks, currentChunk, chunkIndex, lineCount, settled>>

indexVars ==
    <<batchSize, loc, store, clock, invocations, storeBefore, addLog>>

callVars == <<call, ret>>

vars == <<chunkerVars, indexVars, callVars>>

ChunkerState ==
    [chunks |-> chunks, currentChunk |-> currentChunk,
     chunkIndex |-> chunkIndex, lineCount |-> lineCount]

\* no call of the chunker is being followed
ChunkerIdle ==
    /\ file = <<>>
    /\ chunks = ChunkerInit.chunks
    /\ currentChunk = ChunkerInit.currentChunk
    /\ chunkIndex = ChunkerInit.chunkIndex
    /\ lineCount = ChunkerInit.lineCount
    /\ settled = "idle"

\* no invocation yet, and no collection in the vector store
IndexIdle ==
    /\ loc = IdleLocals
    /\ store = [exists |-> FALSE, records |-> NoRecords]
    /\ clock = 0
    /\ invocations = 0
    /\ storeBefore = [exists |-> FALSE, records |-> NoRecords]
    /\ addLog = <<>>

\* no other operation is being followed
CallIdle ==
    /\ call = [op |-> "none"]
    /\ ret = [pc |-> "none"]

(***************************************************************************)
(* SpecChunker: one call of processFileWithStreaming, event by event.      *)
(***************************************************************************)
InitChunker ==
    /\ file \in FilesUpTo(MaxLines)
    /\ maxChunkSize \in 1..MaxChunkSizeArg
    /\ chunks = ChunkerInit.chunks
    /\ currentChunk = ChunkerInit.currentChunk
    /\ chunkIndex = ChunkerInit.chunkIndex
    /\ lineCount = ChunkerInit.lineCount
    /\ settled = "pending"
    /\ batchSize = 1
    /\ IndexIdle
    /\ CallIdle

\* one 'line' event
Line ==
    /\ settled = "pending"
    /\ lineCount < Len(file)
    /\ LET st == OnLine(ChunkerState, LineOf(file, lineCount + 1),
                        ChunkerPath, <<"p", "y">>, maxChunkSize)
       IN  /\ chunks' = st.chunks
           /\ currentChunk' = st.currentChunk
           /\ chunkIndex' = st.chunkIndex
           /\ lineCount' = st.lineCount
    /\ UNCHANGED <<file, maxChunkSize, settled, indexVars, callVars>>

\* the 'close' event at the end of the stream: resolve(chunks)
Close ==
    /\ settled = "pending"
    /\ lineCount = Len(file)
    /\ chunks' = OnClose(ChunkerState, ChunkerPath, <<"p", "y">>)
    /\ settled' = "resolved"
    /\ UNCHANGED <<file, maxChunkSize, currentChunk, chunkIndex, lineCount,
                   indexVars, callVars>>

\* the 'error' event, a read error of the stream: reject(error)
StreamError ==
    /\ settled = "pending"
    /\ settled' = "rejected"
    /\ UNCHANGED <<file, maxChunkSize, chunks, currentChunk, chunkIndex,
                   lineCount, indexVars, callVars>>

NextChunker == Line \/ Close \/ StreamError

SpecChunker == InitChunker /\ [][NextChunker]_vars

(***************************************************************************)
(* Spec: index_local_project invocations, one after the other, against     *)
(* one collection.  Every await of the operation is a step.                *)
(***************************************************************************)
Init ==
    /\ ChunkerIdle
    /\ maxChunkSize = MaxChunkSizeArg
    /\ batchSize \in 1..MaxBatchSize
    /\ IndexIdle
    /\ CallIdle

\* where the operation goes when the per-file loop has no file left: to the
\* first batch if there are chunks, to the success summary if there are none
AfterFileLoop(l) ==
    IF l.fileIdx < Len(l.files)
    THEN l
    ELSE IF Len(l.chunks) > 0
         THEN [l EXCEPT !.pc = "store"]
         ELSE [l EXCEPT !.pc = "done",
                        !.result = [kind |-> "success",
                                    files_processed |-> l.processedFiles,
                                    chunks_created |-> Len(l.chunks)]]

\* IndexLocalProject without the isDirectory test: only a missing path fails
IndexLocalProjectNoDirectoryTest(project_path, project_name) ==
    /\ loc.pc \in {"idle", "done"}
    /\ invocations < MaxInvocations
    /\ invocations' = invocations + 1
    /\ storeBefore' = store
    /\ addLog' = <<>>
    /\ loc' = IF StatKind(project_path) # "missing"
              THEN [IdleLocals EXCEPT
                       !.pc = "collection",
                       !.project_path = project_path,
                       !.project_name = project_name,
                       !.projectId = SanitizeProjectId(project_name)]
              ELSE [IdleLocals EXCEPT
                       !.pc = "done",
                       !.project_path = project_path,
                       !.project_name = project_name,
                       !.result = [kind |-> "error",
                                   message |-> "Cannot access project path"]]
    /\ UNCHANGED <<chunkerVars, callVars, batchSize, store, clock>>

\* a call of index_local_project up to the end of its fs.stat: a path that
\* is missing or no directory ends the call with "Cannot access project path"
IndexLocalProject(project_path, project_name) ==
    /\ loc.pc \in {"idle", "done"}
    /\ invocations < MaxInvocations
    /\ invocations' = invocations + 1
    /\ storeBefore' = store
    /\ addLog' = <<>>
    /\ loc' = IF StatKind(project_path) = "dir"
              THEN [IdleLocals EXCEPT
                       !.pc = "collection",
                       !.project_path = project_path,
                       !.project_name = project_name,
                       !.projectId = SanitizeProjectId(project_name)]
              ELSE [IdleLocals EXCEPT
                       !.pc = "done",
                       !.project_path = project_path,
                       !.project_name = project_name,
                       !.result = [kind |-> "error",
                                   message |-> "Cannot access project path"]]
    /\ UNCHANGED <<chunkerVars, callVars, batchSize, store, clock>>

\* getOrCreateCollection, chromaClient.getCollection: it throws when there is
\* no such collection
GetCollection ==
    /\ loc.pc = "collection"
    /\ loc' = [loc EXCEPT !.pc = IF store.exists THEN "discover" ELSE "create"]
    /\ UNCHANGED <<chunkerVars, callVars, batchSize, store, clock, invocations,
                   storeBefore, addLog>>

\* getOrCreateCollection, chromaClient.createCollection in the catch block:
\* it throws when the collection exists
CreateCollection ==
    /\ loc.pc = "create"
    /\ IF store.exists
       THEN /\ loc' = [loc EXCEPT
                         !.pc = "done",
                         !.result = [kind |-> "error",
                                     message |-> "Collection already exists"]]
            /\ UNCHANGED store
       ELSE /\ loc' = [loc EXCEPT !.pc = "discover"]
            /\ store' = [exists |-> TRUE, records |-> NoRecords]
    /\ UNCHANGED <<chunkerVars, callVars,
                   batchSize, clock, invocations, storeBefore,
                   addLog>>

\* getFilesToIndex: the files the patterns keep
GetFilesToIndex ==
    /\ loc.pc = "discover"
    /\ \E l \in DiscoveredLists :
           loc' = AfterFileLoop([loc EXCEPT !.pc = "files", !.files = l])
    /\ UNCHANGED <<chunkerVars, callVars, batchSize, store, clock, invocations,
                   storeBefore, addLog>>

\* the per-file loop up to the end of await fs.stat(filePath): when it
\* throws, the catch block logs the error and the loop goes to the next file
StatNextFile ==
    /\ loc.pc = "files"
    /\ \E ok \in BOOLEAN :
           loc' = IF ok
                  THEN [loc EXCEPT !.pc = "stream"]
                  ELSE AfterFileLoop(FileLoopBody(loc, "stat_error",
                                                  maxChunkSize, <<>>))
    /\ UNCHANGED <<chunkerVars, callVars, batchSize, store, clock, invocations,
                   storeBefore, addLog>>

\* the rest of the iteration, from the end of await processFileWithStreaming:
\* the chunks are tagged, new Date() being read at each of them
StreamNextFile ==
    /\ loc.pc = "stream"
    /\ \E outcome \in FileOutcomes \ {"stat_error"} :
         \E nows \in ClockReads(clock,
                                IF outcome = "ok"
                                THEN Len(FileChunks(loc.files[loc.fileIdx + 1],
                                                    loc.project_path,
                                                    maxChunkSize))
                                ELSE 0) :
           /\ clock' = IF nows = <<>> THEN clock ELSE nows[Len(nows)]
           /\ loc' = AfterFileLoop([FileLoopBody(loc, outcome, maxChunkSize,
                                                 nows)
                                       EXCEPT !.pc = "files"])
    /\ UNCHANGED <<chunkerVars, callVars,
                   batchSize, store, invocations, storeBefore,
                   addLog>>

\* StoreBatch with the catch block logging the error without throwing it
StoreBatchSwallowingError ==
    /\ loc.pc = "store"
    /\ \E ok \in BOOLEAN :
         LET batch == BatchAt(loc.chunks, loc.i, batchSize)
             ids   == BatchIds(loc.chunks, loc.i, batchSize, loc.projectId)
         IN  /\ addLog' = Append(addLog, [ids |-> ids, ok |-> ok])
             /\ store' = IF ok
                         THEN [store EXCEPT !.records = CollectionAdd(@, ids, batch)]
                         ELSE store
             /\ loc' = IF loc.i + batchSize < Len(loc.chunks)
                       THEN [loc EXCEPT !.i = @ + batchSize]
                       ELSE [loc EXCEPT
                               !.i = @ + batchSize,
                               !.pc = "done",
                               !.result =
                                   [kind |-> "success",
                                    files_processed |-> loc.processedFiles,
                                    chunks_created |-> Len(loc.chunks)]]
    /\ UNCHANGED <<chunkerVars, callVars,
                   batchSize, clock, invocations, storeBefore>>

\* StoreBatch with the project's other records removed by each write
StoreBatchReplacingProject ==
    /\ loc.pc = "store"
    /\ \E ok \in BOOLEAN :
         LET batch == BatchAt(loc.chunks, loc.i, batchSize)
             ids   == BatchIds(loc.chunks, loc.i, batchSize, loc.projectId)
         IN  /\ addLog' = Append(addLog, [ids |-> ids, ok |-> ok])
             /\ IF ok
                THEN /\ store' = [store EXCEPT
                                    !.records =
                                        CollectionAddReplacingProject(@, ids, batch)]
                     /\ loc' = IF loc.i + batchSize < Len(loc.chunks)
                               THEN [loc EXCEPT !.i = @ + batchSize]
                               ELSE [loc EXCEPT
                                       !.i = @ + batchSize,
                                       !.pc = "done",
                                       !.result =
                                           [kind |-> "success",
                                            files_processed |-> loc.processedFiles,
                                            chunks_created |-> Len(loc.chunks)]]
                ELSE /\ UNCHANGED store
                     /\ loc' = [loc EXCEPT
                                  !.pc = "done",
                                  !.result = [kind |-> "error",
                                              message |-> "collection.add failed"]]
    /\ UNCHANGED <<chunkerVars, callVars,
                   batchSize, clock, invocations, storeBefore>>

\* one iteration of the loop of storeChunksInBatches: collection.add succeeds
\* or throws
StoreBatch ==
    /\ loc.pc = "store"
    /\ \E ok \in BOOLEAN :
         LET batch == BatchAt(loc.chunks, loc.i, batchSize)
             ids   == BatchIds(loc.chunks, loc.i, batchSize, loc.projectId)
         IN  /\ addLog' = Append(addLog, [ids |-> ids, ok |-> ok])
             /\ IF ok
                THEN /\ store' = [store EXCEPT
                                    !.records = CollectionAdd(@, ids, batch)]
                     /\ loc' = IF loc.i + batchSize < Len(loc.chunks)
                               THEN [loc EXCEPT !.i = @ + batchSize]
                               ELSE [loc EXCEPT
                                       !.i = @ + batchSize,
                                       !.pc = "done",
                                       !.result =
                                           [kind |-> "success",
                                            files_processed |-> loc.processedFiles,
                                            chunks_created |-> Len(loc.chunks)]]
                ELSE /\ UNCHANGED store
                     /\ loc' = [loc EXCEPT
                                  !.pc = "done",
                                  !.result = [kind |-> "error",
                                              message |-> "collection.add failed"]]
    /\ UNCHANGED <<chunkerVars, callVars,
                   batchSize, clock, invocations, storeBefore>>

Next ==
    \/ \E project_path \in ProjectPaths, project_name \in ProjectNames :
           IndexLocalProject(project_path, project_name)
    \/ GetCollection
    \/ CreateCollection
    \/ GetFilesToIndex
    \/ StatNextFile
    \/ StreamNextFile
    \/ StoreBatch

Spec == Init /\ [][Next]_vars

(***************************************************************************)
(* SpecEmbed: one call of OllamaEmbeddingFunction.generate, await by       *)
(* await.                                                                  *)
(*                                                                         *)
(* call = [op, texts, dim]: the texts to embed and the dimension of the    *)
(* vectors the configured model's endpoint answers with.                   *)
(* ret = [pc, embeddings, requests, outcomes]: the embeddings array, the   *)
(* prompts posted so far and what became of each request.                  *)
(***************************************************************************)
\* the length of the vector pushed in the catch block
FallbackDim == 384

\* new Array(384).fill(0)
ZeroVector == [i \in 1..FallbackDim |-> 0]

\* the dimensions of the models the README recommends
EndpointDims == {384, 1024}

\* the texts given to generate
EmbedTexts == { <<"a">>, <<"b", "c">> }

\* data.embedding of a successful response: a vector of the model's dimension
\* that depends on the prompt only
EndpointEmbedding(text, dim) == [i \in 1..dim |-> Len(text)]

\* what can become of await fetch: a success response, a response that is
\* not ok, or fetch throwing
RequestOutcomes == {"ok", "not_ok", "network_error"}

\* the start of generate
GenerateInit ==
    [pc |-> "loop", embeddings |-> <<>>, requests |-> <<>>, outcomes |-> <<>>]

\* AfterFetch with the catch block throwing the error on
AfterFetchRethrowing(st, text, outcome) ==
    LET sent == [st EXCEPT !.requests = Append(@, text),
                           !.outcomes = Append(@, outcome)]
    IN  IF outcome = "ok"
        THEN [sent EXCEPT !.pc = "body"]
        ELSE [sent EXCEPT !.pc = "raised"]

\* one iteration of for (const text of texts) up to the end of await fetch:
\* a response that is ok is read next; otherwise the catch block pushes the
\* zero vector
AfterFetch(st, text, outcome) ==
    LET sent == [st EXCEPT !.requests = Append(@, text),
                           !.outcomes = Append(@, outcome)]
    IN  IF outcome = "ok"
        THEN [sent EXCEPT !.pc = "body"]
        ELSE [sent EXCEPT !.embeddings = Append(@, ZeroVector)]

\* the rest of the iteration, from the end of await response.json(): the
\* embedding of the body is pushed or, when reading the body threw, the
\* catch block pushes the zero vector
AfterJson(st, text, outcome, dim) ==
    IF outcome = "ok"
    THEN [st EXCEPT !.pc = "loop",
                    !.embeddings = Append(@, EndpointEmbedding(text, dim))]
    ELSE [st EXCEPT !.pc = "loop",
                    !.outcomes[Len(st.outcomes)] = outcome,
                    !.embeddings = Append(@, ZeroVector)]

InitEmbed ==
    /\ ChunkerIdle
    /\ maxChunkSize = 1
    /\ batchSize = 1
    /\ IndexIdle
    /\ call \in [op : {"generate"},
                 texts : UNION {[1..n -> EmbedTexts] : n \in 0..MaxTexts},
                 dim : EndpointDims]
    /\ ret = GenerateInit

\* the request for the next text, up to the end of await fetch
EmbedFetch ==
    /\ call.op = "generate"
    /\ ret.pc = "loop"
    /\ Len(ret.requests) < Len(call.texts)
    /\ \E outcome \in RequestOutcomes :
           ret' = AfterFetch(ret, call.texts[Len(ret.requests) + 1], outcome)
    /\ UNCHANGED <<chunkerVars, indexVars, call>>

\* the end of await response.json(), which gives the body or rejects, and
\* the push
EmbedJson ==
    /\ call.op = "generate"
    /\ ret.pc = "body"
    /\ \E outcome \in {"ok", "json_error"} :
           ret' = AfterJson(ret, call.texts[Len(ret.requests)], outcome,
                            call.dim)
    /\ UNCHANGED <<chunkerVars, indexVars, call>>

\* return embeddings
GenerateReturn ==
    /\ call.op = "generate"
    /\ ret.pc = "loop"
    /\ Len(ret.requests) = Len(call.texts)
    /\ ret' = [ret EXCEPT !.pc = "returned"]
    /\ UNCHANGED <<chunkerVars, indexVars, call>>

NextEmbed == EmbedFetch \/ EmbedJson \/ GenerateReturn

SpecEmbed == InitEmbed /\ [][NextEmbed]_vars

(***************************************************************************)
(* The collection as the read operations find it.                          *)
(*                                                                         *)
(* A stored record has a document and, unless it was stored without one,   *)
(* a metadata record; a metadata field a record was stored without is      *)
(* absent from its domain.  collection.get and collection.query answer     *)
(* with the records in an order the store chooses.                         *)
(***************************************************************************)
\* a record with no field
NoFields == [k \in {} |-> k]

\* the records with the field k, one per value, and the record without it
Opt(k, vals) == {NoFields} \cup {k :> v : v \in vals}

\* the record m without the field k
Without(m, k) == [f \in DOMAIN m \ {k} |-> m[f]]

\* a chunk as index_local_project tags it
SampleChunk(content, filePath, idx, project_name, now) ==
    [content      |-> content,
     file_path    |-> filePath,
     file_type    |-> FileExtension(filePath),
     chunk_index  |-> idx,
     project_id   |-> SanitizeProjectId(project_name),
     project_name |-> project_name,
     project_path |-> RootDir,
     source_type  |-> "local",
     indexed_at   |-> now]

\* the records a collection can hold: two of one project id stored under two
\* project names, two of another project with the same file path (one of
\* them without chunk_index), one without metadata and one without
\* project_id
RecordTable ==
    LET ab == SanitizeProjectId(<<"A", "-", "b">>)
        py == <<"a", ".", "p", "y">>
        r4 == StoredRecord(SampleChunk(<<"d">>, py, 0, <<"c">>, 1))
        r6 == StoredRecord(SampleChunk(<<"f">>, <<"b">>, 0, <<"c">>, 0))
    IN  << [id     |-> ChunkId(ab, 0),
            record |-> StoredRecord(SampleChunk(<<"b", "c">>, py, 0,
                                                <<"A", "-", "b">>, 0))],
           [id     |-> ChunkId(ab, 1),
            record |-> StoredRecord(SampleChunk(<<"a">>, py, 1,
                                                <<"a", " ", "b">>, 1))],
           [id     |-> ChunkId(<<"c">>, 0),
            record |-> StoredRecord(SampleChunk(<<"a">>, py, 0, <<"c">>, 0))],
           [id     |-> ChunkId(<<"c">>, 1),
            record |-> [r4 EXCEPT
                           !.metadata = Without(@, "chunk_index")]],
           [id     |-> <<"x">>,
            record |-> [document |-> <<"e">>]],
           [id     |-> <<"y">>,
            record |-> [r6 EXCEPT
                           !.metadata = Without(@, "project_id")]] >>

\* the collections the read operations are run against: none, or one of at
\* most MaxRecords records of the table
SampleStores ==
    {[exists |-> FALSE, records |-> NoRecords]} \cup
    {[exists  |-> TRUE,
      records |-> [id \in {RecordTable[k].id : k \in S} |->
                      RecordTable[CHOOSE k \in S : RecordTable[k].id = id].record]] :
        S \in {T \in SUBSET (1..Len(RecordTable)) : Cardinality(T) <= MaxRecords}}

\* the orders in which the store can answer with its records
ScanOrders(records) ==
    {o \in [1..Cardinality(DOMAIN records) -> DOMAIN records] :
        \A i, j \in DOMAIN o : i # j => o[i] # o[j]}

\* the records in the order o
Rows(records, o) == [i \in DOMAIN o |-> records[o[i]]]

\* metadata?.[k] is defined
HasField(r, k) == "metadata" \in DOMAIN r /\ k \in DOMAIN r.metadata

\* the test of a where clause {k: {"$eq": v}} on a record
WhereEq(r, k, v) == HasField(r, k) /\ r.metadata[k] = v

\* what an operation in flight elsewhere can do to the collection while the
\* call followed is suspended at an await: create it when it does not exist
\* (its own getOrCreateCollection), write one more record (a collection.add
\* of an index_local_project run)
OtherOperationEffects(st) ==
    IF ~st.exists
    THEN {[exists |-> TRUE, records |-> NoRecords]}
    ELSE {t \in SampleStores :
             /\ t.exists
             /\ Cardinality(DOMAIN t.records) = Cardinality(DOMAIN st.records) + 1
             /\ \A id \in DOMAIN st.records :
                    /\ id \in DOMAIN t.records
                    /\ t.records[id] = st.records[id]}

\* no index_local_project invocation is followed
NoInvocation ==
    /\ loc = IdleLocals
    /\ clock = 0
    /\ invocations = 0
    /\ addLog = <<>>

\* getOrCreateCollection of the call followed, up to the end of await
\* getCollection: when it throws (no such collection) createCollection is
\* awaited next, otherwise the caller goes on at pc to
CallGetCollection(op, from, to) ==
    /\ call.op = op
    /\ ret.pc = from
    /\ ret' = [ret EXCEPT !.pc = IF store.exists THEN to ELSE "create"]
    /\ UNCHANGED <<chunkerVars, indexVars, call>>

\* getOrCreateCollection of the call followed, the end of await
\* createCollection in the catch block: it throws when the collection exists
\* by now, and the operation throws with it
CallCreateCollection(op, to) ==
    /\ call.op = op
    /\ ret.pc = "create"
    /\ IF store.exists
       THEN /\ ret' = [pc |-> "thrown", message |-> "Collection already exists"]
            /\ UNCHANGED store
       ELSE /\ ret' = [ret EXCEPT !.pc = to]
            /\ store' = [exists |-> TRUE, records |-> NoRecords]
    /\ UNCHANGED <<chunkerVars, batchSize, loc, clock, invocations,
                   storeBefore, addLog, call>>

\* a step of another operation while the call followed is suspended at one
\* of the awaits pcs
OtherOperation(op, pcs) ==
    /\ call.op = op
    /\ ret.pc \in pcs
    /\ store' \in OtherOperationEffects(store)
    /\ UNCHANGED <<chunkerVars, batchSize, loc, clock, invocations,
                   storeBefore, addLog, callVars>>

(***************************************************************************)
(* SpecSearch: one search tool call, through the stdio adapter             *)
(* (search_codebase) or the HTTP adapter (search_code).                    *)
(*                                                                         *)
(* call = [op, adapter, args]; ret = [pc, args, query, results]: the       *)
(* arguments searchCodebase is called with, the arguments of               *)
(* collection.query and the records it answers with.                       *)
(***************************************************************************)
\* const { query, limit = 10, project_filter } = args
DefaultLimit == 10

\* const { query, n_results = 10 } = args
DefaultNResults == 10

\* the project_filter arguments: the empty string and two project ids
ProjectFilters ==
    {<<>>, SanitizeProjectId(<<"A", "-", "b">>), <<"c">>}

\* the arguments of a search tool call; limit, n_results and project_filter
\* are optional
SearchArgs ==
    {[query |-> <<"q">>] @@ l @@ n @@ p :
        l \in Opt("limit", 1..MaxLimit),
        n \in Opt("n_results", 1..MaxLimit),
        p \in Opt("project_filter", ProjectFilters)}

\* searchCode: the arguments it calls searchCodebase with
SearchCodeArgs(args) ==
    [query |-> args.query,
     limit |-> IF "n_results" \in DOMAIN args
               THEN args.n_results
               ELSE DefaultNResults]

\* QueryOf without the where clause
QueryOfUnfiltered(args) ==
    [queryTexts |-> <<args.query>>,
     nResults   |-> IF "limit" \in DOMAIN args THEN args.limit
                    ELSE DefaultLimit]

\* searchCodebase: the arguments of collection.query
QueryOf(args) ==
    [queryTexts |-> <<args.query>>,
     nResults   |-> IF "limit" \in DOMAIN args THEN args.limit
                    ELSE DefaultLimit]
    @@ IF "project_filter" \in DOMAIN args /\ args.project_filter # <<>>
       THEN [where |-> [project_id |-> ("$eq" :> args.project_filter)]]
       ELSE NoFields

\* collection.query: the first nResults records, in the store's ranking,
\* that pass the where clause
CollectionQuery(rows, query) ==
    LET Passes(r) ==
            \/ "where" \notin DOMAIN query
            \/ WhereEq(r, "project_id", query.where.project_id["$eq"])
        matching == SelectSeq(rows, Passes)
    IN  SubSeq(matching, 1, Min(query.nResults, Len(matching)))

InitSearch ==
    /\ ChunkerIdle
    /\ maxChunkSize = 1
    /\ batchSize = 1
    /\ NoInvocation
    /\ store \in SampleStores
    /\ storeBefore = store
    /\ call \in [op : {"search"}, adapter : {"stdio", "http"},
                 args : SearchArgs]
    /\ ret = [pc |-> "request"]

\* case "search_codebase" of the stdio adapter
StdioSearchCodebase ==
    /\ call.op = "search"
    /\ call.adapter = "stdio"
    /\ ret.pc = "request"
    /\ ret' = [pc |-> "searchCodebase", args |-> call.args]
    /\ UNCHANGED <<chunkerVars, indexVars, call>>

\* case "search_code" of the HTTP adapter: searchCode
HttpSearchCode ==
    /\ call.op = "search"
    /\ call.adapter = "http"
    /\ ret.pc = "request"
    /\ ret' = [pc |-> "searchCodebase", args |-> SearchCodeArgs(call.args)]
    /\ UNCHANGED <<chunkerVars, indexVars, call>>

\* searchCodebase from the end of await collection.query: the answer is
\* made from the collection as it is then
SearchCodebase ==
    /\ call.op = "search"
    /\ ret.pc = "query"
    /\ \E o \in ScanOrders(store.records) :
           ret' = [pc      |-> "returned",
                   args    |-> ret.args,
                   query   |-> QueryOf(ret.args),
                   results |-> CollectionQuery(Rows(store.records, o),
                                               QueryOf(ret.args))]
    /\ UNCHANGED <<chunkerVars, indexVars, call>>

NextSearch ==
    \/ StdioSearchCodebase
    \/ HttpSearchCode
    \/ CallGetCollection("search", "searchCodebase", "query")
    \/ CallCreateCollection("search", "query")
    \/ SearchCodebase
    \/ OtherOperation("search", {"searchCodebase", "create", "query"})

SpecSearch == InitSearch /\ [][NextSearch]_vars

(***************************************************************************)
(* SpecFileContent: one get_file_content call of the HTTP adapter.         *)
(*                                                                         *)
(* call = [op, file_path]; ret = [pc, kind, got, chunks, fullContent,      *)
(* chunkCount]: the records collection.get answered with, in its order,    *)
(* the sorted chunks, the joined content and the count in the header.      *)
(***************************************************************************)
\* the file_path arguments: a path stored by two projects, a path stored
\* once and a path that is not stored
FilePathArgs == { <<"a", ".", "p", "y">>, <<"b">>, <<"z">> }

\* a.metadata?.chunk_index || 0
ChunkIndexKey(r) ==
    IF HasField(r, "chunk_index") THEN r.metadata.chunk_index ELSE 0

\* collection.get({where: {k: {"$eq": v}}}): the records that pass, in the
\* store's order
CollectionGetWhere(rows, k, v) ==
    SelectSeq(rows, LAMBDA r : WhereEq(r, k, v))

\* sorted with r put after the elements whose key is not greater than r's
InsertByChunkIndex(sorted, r) ==
    LET n == Cardinality({i \in 1..Len(sorted) :
                             ChunkIndexKey(sorted[i]) <= ChunkIndexKey(r)})
    IN  SubSeq(sorted, 1, n) \o <<r>> \o SubSeq(sorted, n + 1, Len(sorted))

\* Array.prototype.sort by chunk_index; the sort is stable
RECURSIVE SortByChunkIndex(_)
SortByChunkIndex(rows) ==
    IF rows = <<>> THEN <<>>
    ELSE InsertByChunkIndex(SortByChunkIndex(SubSeq(rows, 1, Len(rows) - 1)),
                            rows[Len(rows)])

\* Array.prototype.join
RECURSIVE Join(_, _)
Join(ts, sep) ==
    IF ts = <<>> THEN <<>>
    ELSE IF Len(ts) = 1 THEN ts[1]
    ELSE ts[1] \o sep \o Join(Tail(ts), sep)

\* FileContentOf with the chunks left in the store's order
FileContentOfUnsorted(got) ==
    IF got = <<>>
    THEN [pc |-> "returned", kind |-> "not_found", got |-> got]
    ELSE LET sortedChunks == got
         IN  [pc          |-> "returned",
              kind        |-> "file",
              got         |-> got,
              chunks      |-> sortedChunks,
              fullContent |-> Join([i \in 1..Len(sortedChunks) |->
                                       sortedChunks[i].document], NL),
              chunkCount  |-> Len(sortedChunks)]

\* getFileContent after collection.get answered with the records got
FileContentOf(got) ==
    IF got = <<>>
    THEN [pc |-> "returned", kind |-> "not_found", got |-> got]
    ELSE LET sortedChunks == SortByChunkIndex(got)
         IN  [pc          |-> "returned",
              kind        |-> "file",
              got         |-> got,
              chunks      |-> sortedChunks,
              fullContent |-> Join([i \in 1..Len(sortedChunks) |->
                                       sortedChunks[i].document], NL),
              chunkCount  |-> Len(sortedChunks)]

InitFileContent ==
    /\ ChunkerIdle
    /\ maxChunkSize = 1
    /\ batchSize = 1
    /\ NoInvocation
    /\ store \in SampleStores
    /\ storeBefore = store
    /\ call \in [op : {"get_file_content"}, file_path : FilePathArgs]
    /\ ret = [pc |-> "request"]

\* getFileContent from the end of await collection.get: the answer is made
\* from the collection as it is then
GetFileContent ==
    /\ call.op = "get_file_content"
    /\ ret.pc = "get"
    /\ \E o \in ScanOrders(store.records) :
           ret' = FileContentOf(CollectionGetWhere(Rows(store.records, o),
                                                   "file_path",
                                                   call.file_path))
    /\ UNCHANGED <<chunkerVars, indexVars, call>>

NextFileContent ==
    \/ CallGetCollection("get_file_content", "request", "get")
    \/ CallCreateCollection("get_file_content", "get")
    \/ GetFileContent
    \/ OtherOperation("get_file_content", {"request", "create", "get"})

SpecFileContent == InitFileContent /\ [][NextFileContent]_vars

(***************************************************************************)
(* SpecListProjects: one list_indexed_projects call.                       *)
(*                                                                         *)
(* call = [op]; ret = [pc, kind, scanned, projects]: the records           *)
(* collection.get answered with, in its order, and the values of the       *)
(* projects map in insertion order.                                        *)
(***************************************************************************)
\* !metadata || !metadata.project_id
NoProjectId(r) ==
    \/ ~HasField(r, "project_id")
    \/ r.metadata.project_id = <<>>

\* AddToProjects with the display fields taken from the latest record
AddToProjectsLastSeen(projects, r) ==
    IF NoProjectId(r) THEN projects
    ELSE LET m == r.metadata
             fresh == [project_id   |-> m.project_id,
                       project_name |-> m.project_name,
                       project_path |-> m.project_path,
                       source_type  |-> m.source_type,
                       indexed_at   |-> m.indexed_at,
                       chunk_count  |-> 0]
         IN  IF \E k \in 1..Len(projects) :
                    projects[k].project_id = m.project_id
             THEN [k \in 1..Len(projects) |->
                      IF projects[k].project_id = m.project_id
                      THEN [fresh EXCEPT
                               !.chunk_count = projects[k].chunk_count + 1]
                      ELSE projects[k]]
             ELSE Append(projects, [fresh EXCEPT !.chunk_count = 1])

\* the body of metadatas.forEach
AddToProjects(projects, r) ==
    IF NoProjectId(r) THEN projects
    ELSE LET m == r.metadata
             fresh == [project_id   |-> m.project_id,
                       project_name |-> m.project_name,
                       project_path |-> m.project_path,
                       source_type  |-> m.source_type,
                       indexed_at   |-> m.indexed_at,
                       chunk_count  |-> 0]
         IN  IF \E k \in 1..Len(projects) :
                    projects[k].project_id = m.project_id
             THEN [k \in 1..Len(projects) |->
                      IF projects[k].project_id = m.project_id
                      THEN [projects[k] EXCEPT !.chunk_count = @ + 1]
                      ELSE projects[k]]
             ELSE Append(projects, [fresh EXCEPT !.chunk_count = 1])

\* metadatas.forEach over the scanned records
RECURSIVE ProjectsOf(_)
ProjectsOf(rows) ==
    IF rows = <<>> THEN <<>>
    ELSE AddToProjects(ProjectsOf(SubSeq(rows, 1, Len(rows) - 1)),
                       rows[Len(rows)])

\* listIndexedProjects after collection.get answered with the records rows
ListProjectsOf(rows) ==
    IF rows = <<>>
    THEN [pc |-> "returned", kind |-> "empty", scanned |-> rows,
          projects |-> <<>>]
    ELSE [pc |-> "returned", kind |-> "list", scanned |-> rows,
          projects |-> ProjectsOf(rows)]

InitListProjects ==
    /\ ChunkerIdle
    /\ maxChunkSize = 1
    /\ batchSize = 1
    /\ NoInvocation
    /\ store \in SampleStores
    /\ storeBefore = store
    /\ call = [op |-> "list_indexed_projects"]
    /\ ret = [pc |-> "request"]

\* listIndexedProjects from the end of await collection.get: the answer is
\* made from the collection as it is then
ListIndexedProjects ==
    /\ call.op = "list_indexed_projects"
    /\ ret.pc = "get"
    /\ \E o \in ScanOrders(store.records) :
           ret' = ListProjectsOf(Rows(store.records, o))
    /\ UNCHANGED <<chunkerVars, indexVars, call>>

NextListProjects ==
    \/ CallGetCollection("list_indexed_projects", "request", "get")
    \/ CallCreateCollection("list_indexed_projects", "get")
    \/ ListIndexedProjects
    \/ OtherOperation("list_indexed_projects", {"request", "create", "get"})

SpecListProjects == InitListProjects /\ [][NextListProjects]_vars

(***************************************************************************)
(* SpecOverlap: two index_local_project invocations in flight at once.     *)
(*                                                                         *)
(* An invocation runs until its next await and the other may run then:     *)
(* the steps are those of Spec, taken by either invocation.                *)
(* call = [op, args]: the arguments of the two invocations.                *)
(* ret = [pc, locs]: the locals of the two invocations.                     *)
(***************************************************************************)
Runs == {1, 2}

\* the file lists getFilesToIndex returns to the overlapping invocations
OverlapLists == {l \in DiscoveredLists : Len(l) >= 1 /\ l[1] = 1 /\ Len(l) <= 2}

InitOverlap ==
    /\ ChunkerIdle
    /\ maxChunkSize = MaxChunkSizeArg
    /\ batchSize \in 1..MaxBatchSize
    /\ loc = IdleLocals
    /\ clock = 0
    /\ invocations = 0
    /\ addLog = <<>>
    /\ store \in {[exists |-> e, records |-> NoRecords] : e \in BOOLEAN}
    /\ storeBefore = store
    /\ call \in [op : {"index_local_project"},
                 args : {a \in [Runs -> [project_path : {RootDir},
                                         project_name : ProjectNames]] :
                            a[2].project_name = <<"a", " ", "b">>}]
    /\ ret = [pc |-> "overlap", locs |-> [r \in Runs |-> IdleLocals]]

\* invocation r up to the end of its fs.stat
RunIndexLocalProject(r) ==
    /\ call.op = "index_local_project"
    /\ ret.locs[r].pc = "idle"
    /\ ret' = [ret EXCEPT !.locs[r] =
                  IF StatKind(call.args[r].project_path) = "dir"
                  THEN [IdleLocals EXCEPT
                          !.pc = "collection",
                          !.project_path = call.args[r].project_path,
                          !.project_name = call.args[r].project_name,
                          !.projectId =
                              SanitizeProjectId(call.args[r].project_name)]
                  ELSE [IdleLocals EXCEPT
                          !.pc = "done",
                          !.project_path = call.args[r].project_path,
                          !.project_name = call.args[r].project_name,
                          !.result = [kind |-> "error",
                                      message |-> "Cannot access project path"]]]
    /\ UNCHANGED <<chunkerVars, indexVars, call>>

\* invocation r, chromaClient.getCollection
RunGetCollection(r) ==
    /\ call.op = "index_local_project"
    /\ ret.locs[r].pc = "collection"
    /\ ret' = [ret EXCEPT !.locs[r].pc =
                  IF store.exists THEN "discover" ELSE "create"]
    /\ UNCHANGED <<chunkerVars, indexVars, call>>

\* invocation r, chromaClient.createCollection in the catch block
RunCreateCollection(r) ==
    /\ call.op = "index_local_project"
    /\ ret.locs[r].pc = "create"
    /\ IF store.exists
       THEN /\ ret' = [ret EXCEPT
                         !.locs[r].pc = "done",
                         !.locs[r].result =
                             [kind |-> "error",
                              message |-> "Collection already exists"]]
            /\ UNCHANGED store
       ELSE /\ ret' = [ret EXCEPT !.locs[r].pc = "discover"]
            /\ store' = [exists |-> TRUE, records |-> NoRecords]
    /\ UNCHANGED <<chunkerVars, batchSize, loc, clock, invocations,
                   storeBefore, addLog, call>>

\* invocation r, getFilesToIndex
RunGetFilesToIndex(r) ==
    /\ call.op = "index_local_project"
    /\ ret.locs[r].pc = "discover"
    /\ \E l \in OverlapLists :
           ret' = [ret EXCEPT !.locs[r] =
                      AfterFileLoop([@ EXCEPT !.pc = "files", !.files = l])]
    /\ UNCHANGED <<chunkerVars, indexVars, call>>

\* invocation r, the per-file loop up to the end of await fs.stat(filePath)
RunStatNextFile(r) ==
    /\ call.op = "index_local_project"
    /\ ret.locs[r].pc = "files"
    /\ \E ok \in BOOLEAN :
           ret' = [ret EXCEPT !.locs[r] =
                      IF ok
                      THEN [@ EXCEPT !.pc = "stream"]
                      ELSE AfterFileLoop(FileLoopBody(@, "stat_error",
                                                      maxChunkSize, <<>>))]
    /\ UNCHANGED <<chunkerVars, indexVars, call>>

\* invocation r, the rest of the iteration, from the end of await
\* processFileWithStreaming
RunStreamNextFile(r) ==
    /\ call.op = "index_local_project"
    /\ ret.locs[r].pc = "stream"
    /\ \E outcome \in FileOutcomes \ {"stat_error"} :
         \E nows \in ClockReads(clock,
                                IF outcome = "ok"
                                THEN Len(FileChunks(
                                         ret.locs[r].files[ret.locs[r].fileIdx + 1],
                                         ret.locs[r].project_path,
                                         maxChunkSize))
                                ELSE 0) :
           /\ clock' = IF nows = <<>> THEN clock ELSE nows[Len(nows)]
           /\ ret' = [ret EXCEPT !.locs[r] =
                         AfterFileLoop([FileLoopBody(@, outcome, maxChunkSize,
                                                     nows)
                                          EXCEPT !.pc = "files"])]
    /\ UNCHANGED <<chunkerVars, batchSize, loc, store, invocations,
                   storeBefore, addLog, call>>

\* RunStoreBatch held back while the other invocation is storing its batches
RunStoreBatchSerialised(r) ==
    /\ call.op = "index_local_project"
    /\ ret.locs[r].pc = "store"
    /\ ~(ret.locs[3 - r].pc = "store" /\ ret.locs[3 - r].i > 0)
    /\ \E ok \in BOOLEAN :
         LET l     == ret.locs[r]
             batch == BatchAt(l.chunks, l.i, batchSize)
             ids   == BatchIds(l.chunks, l.i, batchSize, l.projectId)
         IN  /\ IF ok
                THEN /\ store' = [store EXCEPT
                                    !.records = CollectionAdd(@, ids, batch)]
                     /\ ret' = [ret EXCEPT !.locs[r] =
                                  IF l.i + batchSize < Len(l.chunks)
                                  THEN [l EXCEPT !.i = @ + batchSize]
                                  ELSE [l EXCEPT
                                          !.i = @ + batchSize,
                                          !.pc = "done",
                                          !.result =
                                              [kind |-> "success",
                                               files_processed |-> l.processedFiles,
                                               chunks_created |-> Len(l.chunks)]]]
                ELSE /\ UNCHANGED store
                     /\ ret' = [ret EXCEPT !.locs[r] =
                                  [l EXCEPT
                                     !.pc = "done",
                                     !.result = [kind |-> "error",
                                                 message |-> "collection.add failed"]]]
    /\ UNCHANGED <<chunkerVars, batchSize, loc, clock, invocations,
                   storeBefore, addLog, call>>

\* invocation r, one iteration of the loop of storeChunksInBatches
RunStoreBatch(r) ==
    /\ call.op = "index_local_project"
    /\ ret.locs[r].pc = "store"
    /\ \E ok \in BOOLEAN :
         LET l     == ret.locs[r]
             batch == BatchAt(l.chunks, l.i, batchSize)
             ids   == BatchIds(l.chunks, l.i, batchSize, l.projectId)
         IN  /\ IF ok
                THEN /\ store' = [store EXCEPT
                                    !.records = CollectionAdd(@, ids, batch)]
                     /\ ret' = [ret EXCEPT !.locs[r] =
                                  IF l.i + batchSize < Len(l.chunks)
                                  THEN [l EXCEPT !.i = @ + batchSize]
                                  ELSE [l EXCEPT
                                          !.i = @ + batchSize,
                                          !.pc = "done",
                                          !.result =
                                              [kind |-> "success",
                                               files_processed |-> l.processedFiles,
                                               chunks_created |-> Len(l.chunks)]]]
                ELSE /\ UNCHANGED store
                     /\ ret' = [ret EXCEPT !.locs[r] =
                                  [l EXCEPT
                                     !.pc = "done",
                                     !.result = [kind |-> "error",
                                                 message |-> "collection.add failed"]]]
    /\ UNCHANGED <<chunkerVars, batchSize, loc, clock, invocations,
                   storeBefore, addLog, call>>

NextOverlap ==
    \E r \in Runs :
        \/ RunIndexLocalProject(r)
        \/ RunGetCollection(r)
        \/ RunCreateCollection(r)
        \/ RunGetFilesToIndex(r)
        \/ RunStatNextFile(r)
        \/ RunStreamNextFile(r)
        \/ RunStoreBatch(r)

SpecOverlap == InitOverlap /\ [][NextOverlap]_vars

(***************************************************************************)
(* matchesPattern, and SpecMatch: one call of it.                          *)
(*                                                                         *)
(* call = [op, filePath, pattern]; ret = [pc, result].                     *)
(***************************************************************************)
\* the characters paths and patterns are made of
PatternChars == {"a", ".", "/", "*"}

\* the strings of at most n characters
StringsUpTo(n) == UNION {[1..k -> PatternChars] : k \in 0..n}

\* String.prototype.startsWith
StartsWith(s, prefix) ==
    /\ Len(prefix) <= Len(s)
    /\ SubSeq(s, 1, Len(prefix)) = prefix

\* String.prototype.endsWith
StringEndsWith(s, suffix) ==
    /\ Len(suffix) <= Len(s)
    /\ SubSeq(s, Len(s) - Len(suffix) + 1, Len(s)) = suffix

\* the characters "." of a regular expression does not match
LineTerminators == {"\n", "\r"}

\* new RegExp(`^${escaped}$`).test(filePath): "*" of the pattern stands for
\* any run of characters, "?" for one character, any other character for
\* itself
RECURSIVE GlobMatches(_, _)
GlobMatches(filePath, pattern) ==
    IF pattern = <<>> THEN filePath = <<>>
    ELSE IF Head(pattern) = "*"
    THEN \E k \in 0..Len(filePath) :
            /\ \A i \in 1..k : filePath[i] \notin LineTerminators
            /\ GlobMatches(SubSeq(filePath, k + 1, Len(filePath)),
                           Tail(pattern))
    ELSE /\ filePath # <<>>
         /\ IF Head(pattern) = "?"
            THEN Head(filePath) \notin LineTerminators
            ELSE Head(filePath) = Head(pattern)
         /\ GlobMatches(Tail(filePath), Tail(pattern))

\* MatchesPattern with the "/**" branch testing the prefix without the "/"
MatchesPatternAnyPrefix(filePath, pattern) ==
    IF StringEndsWith(pattern, <<"/", "*", "*">>)
    THEN LET base == SubSeq(pattern, 1, Len(pattern) - 3)
         IN  filePath = base \/ StartsWith(filePath, base)
    ELSE IF StartsWith(pattern, <<"*", ".">>)
    THEN StringEndsWith(filePath, Tail(pattern))
    ELSE GlobMatches(filePath, pattern)

\* matchesPattern
MatchesPattern(filePath, pattern) ==
    IF StringEndsWith(pattern, <<"/", "*", "*">>)
    THEN LET base == SubSeq(pattern, 1, Len(pattern) - 3)
         IN  filePath = base \/ StartsWith(filePath, base \o <<"/">>)
    ELSE IF StartsWith(pattern, <<"*", ".">>)
    THEN StringEndsWith(filePath, Tail(pattern))
    ELSE GlobMatches(filePath, pattern)

InitMatch ==
    /\ ChunkerIdle
    /\ maxChunkSize = 1
    /\ batchSize = 1
    /\ IndexIdle
    /\ call \in [op : {"matchesPattern"},
                 filePath : StringsUpTo(MaxPathLen),
                 pattern : StringsUpTo(MaxPatternLen)]
    /\ ret = [pc |-> "request"]

\* the call of matchesPattern
MatchesPatternCall ==
    /\ call.op = "matchesPattern"
    /\ ret.pc = "request"
    /\ ret' = [pc |-> "returned",
               result |-> MatchesPattern(call.filePath, call.pattern)]
    /\ UNCHANGED <<chunkerVars, indexVars, call>>

SpecMatch == InitMatch /\ [][MatchesPatternCall]_vars

(***************************************************************************)
(* getFilesToIndex, and SpecDiscover: one call of it on a directory tree.  *)
(*                                                                         *)
(* call = [op, includePatterns, excludePatterns, unreadable]: the pattern  *)
(* lists and the directories whose fs.readdir throws.                      *)
(* ret = [pc, currentPath, frames, allFiles, removed]: the directory whose *)
(* fs.readdir is awaited, the loops suspended at `await traverse` (each    *)
(* with its directory and the entries it has yet to visit), the files      *)
(* pushed so far and the files removed from the tree since the call.       *)
(***************************************************************************)
\* the entries below the root directory; the entries of one directory stand
\* in the order fs.readdir lists them, the byte order of their names ("."
\* before "a", "a" before "a.a")
TreeTable ==
    << [path |-> RootDir \o <<"/", ".", "a">>,                kind |-> "dir"],
       [path |-> RootDir \o <<"/", ".", "a", "/", "a">>,      kind |-> "file"],
       [path |-> RootDir \o <<"/", "a">>,                     kind |-> "dir"],
       [path |-> RootDir \o <<"/", "a", "/", ".", "g", "i", "t">>,
                                                             kind |-> "dir"],
       [path |-> RootDir \o <<"/", "a", "/", ".", "g", "i", "t", "/", "a">>,
                                                             kind |-> "file"],
       [path |-> RootDir \o <<"/", "a", "/", "a">>,           kind |-> "dir"],
       [path |-> RootDir \o <<"/", "a", "/", "a", "/", "a">>, kind |-> "file"],
       [path |-> RootDir \o <<"/", "a", "/", "a", ".", "a">>, kind |-> "file"],
       [path |-> RootDir \o <<"/", "a", ".", "a">>,           kind |-> "file"] >>

\* the directories of the tree, the root among them
TreeDirs ==
    {RootDir} \cup {TreeTable[k].path : k \in {j \in 1..Len(TreeTable) :
                                                  TreeTable[j].kind = "dir"}}

\* path.join(currentPath, entry.name)
PathJoin(currentPath, name) == currentPath \o <<"/">> \o name

\* fs.readdir(currentPath, {withFileTypes: true}): the entries the directory
\* has when the files of `removed` are gone, each with its name, in the
\* order of the names
ReadDir(currentPath, removed) ==
    LET own == SelectSeq(TreeTable,
                         LAMBDA e : /\ e.path \notin removed
                                    /\ e.path = PathJoin(currentPath,
                                                         BaseName(e.path)))
    IN  [k \in 1..Len(own) |-> [name |-> BaseName(own[k].path),
                                isDirectory |-> own[k].kind = "dir"]]

\* patterns.some(pattern => this.matchesPattern(relativePath, pattern))
SomeMatches(relativePath, patterns) ==
    \E k \in 1..Len(patterns) : MatchesPattern(relativePath, patterns[k])

\* EntryDecision with no exclude test on directories
EntryDecisionNoPruning(isDirectory, relativePath, includePatterns, excludePatterns) ==
    IF isDirectory
    THEN "traverse"
    ELSE IF /\ Len(includePatterns) = 0 \/ SomeMatches(relativePath, includePatterns)
            /\ ~SomeMatches(relativePath, excludePatterns)
         THEN "push"
         ELSE "skip"

\* what the loop body does with one entry: descend into it, push it or
\* leave it out
EntryDecision(isDirectory, relativePath, includePatterns, excludePatterns) ==
    IF isDirectory
    THEN IF SomeMatches(relativePath, excludePatterns)
         THEN "skip"
         ELSE "traverse"
    ELSE IF /\ Len(includePatterns) = 0 \/ SomeMatches(relativePath, includePatterns)
            /\ ~SomeMatches(relativePath, excludePatterns)
         THEN "push"
         ELSE "skip"

\* the synchronous run of traverse from the loop over `entries` of
\* st.currentPath up to the next await of fs.readdir: a file is pushed or
\* left out, a directory that is not excluded suspends the loop in a frame
\* and becomes the directory being read, and a loop that ends resumes the
\* loop of the traverse that awaited it, or ends the call when there is none
RECURSIVE ResumeLoop(_, _, _, _, _)
ResumeLoop(st, entries, dirPath, includePatterns, excludePatterns) ==
    IF entries = <<>>
    THEN IF st.frames = <<>>
         THEN [st EXCEPT !.pc = "returned", !.currentPath = <<>>]
         ELSE LET frame == st.frames[Len(st.frames)]
              IN  ResumeLoop([st EXCEPT !.currentPath = frame.currentPath,
                                        !.frames = SubSeq(st.frames, 1,
                                                          Len(st.frames) - 1)],
                             frame.entries, dirPath, includePatterns,
                             excludePatterns)
    ELSE LET fullPath == PathJoin(st.currentPath, Head(entries).name)
             decision == EntryDecision(Head(entries).isDirectory,
                                       PathRelative(dirPath, fullPath),
                                       includePatterns, excludePatterns)
         IN  IF decision = "traverse"
             THEN [st EXCEPT !.currentPath = fullPath,
                             !.frames = Append(st.frames,
                                 [currentPath |-> st.currentPath,
                                  entries |-> Tail(entries)])]
             ELSE ResumeLoop(IF decision = "push"
                             THEN [st EXCEPT !.allFiles = Append(@, fullPath)]
                             ELSE st,
                             Tail(entries), dirPath, includePatterns,
                             excludePatterns)

\* the patterns the lists are made of: a directory pattern, an extension
\* pattern, a literal name and a wildcard before a name
PatternPool ==
    { <<"a", "/", "*", "*">>, <<"*", ".", "a">>, <<"a">>, <<"*", "/", "a">> }

\* the pattern lists of at most MaxPatterns patterns
PatternLists == UNION {[1..n -> PatternPool] : n \in 0..MaxPatterns}

InitDiscover ==
    /\ ChunkerIdle
    /\ maxChunkSize = 1
    /\ batchSize = 1
    /\ IndexIdle
    /\ call \in [op : {"getFilesToIndex"},
                 includePatterns : PatternLists,
                 excludePatterns : PatternLists,
                 unreadable : SUBSET TreeDirs]
    /\ ret = [pc |-> "request"]

\* the call of getFilesToIndex on the root directory: traverse(dirPath)
\* runs up to its await of fs.readdir(dirPath)
GetFilesToIndexCall ==
    /\ call.op = "getFilesToIndex"
    /\ ret.pc = "request"
    /\ ret' = [pc |-> "readdir", currentPath |-> RootDir, frames |-> <<>>,
               allFiles |-> <<>>, removed |-> {}]
    /\ UNCHANGED <<chunkerVars, indexVars, call>>

\* the awaited fs.readdir(currentPath) settles: with the entries the
\* directory has now, or by throwing, which the catch logs and which ends
\* this traverse; the call runs on to its next await of fs.readdir or to
\* its return
ReaddirSettles ==
    /\ call.op = "getFilesToIndex"
    /\ ret.pc = "readdir"
    /\ ret' = ResumeLoop(ret,
                         IF ret.currentPath \in call.unreadable
                         THEN <<>>
                         ELSE ReadDir(ret.currentPath, ret.removed),
                         RootDir, call.includePatterns, call.excludePatterns)
    /\ UNCHANGED <<chunkerVars, indexVars, call>>

\* while the call is suspended at an await something else removes a file of
\* the tree: one the root directory lists, or one the last directory read
\* lists
FileRemoved ==
    /\ call.op = "getFilesToIndex"
    /\ ret.pc = "readdir"
    /\ \E f \in {RootDir \o <<"/", "a", ".", "a">>,
                  RootDir \o <<"/", "a", "/", "a", "/", "a">>} \ ret.removed :
           ret' = [ret EXCEPT !.removed = @ \cup {f}]
    /\ UNCHANGED <<chunkerVars, indexVars, call>>

NextDiscover == GetFilesToIndexCall \/ ReaddirSettles \/ FileRemoved

SpecDiscover == InitDiscover /\ [][NextDiscover]_vars

(***************************************************************************)
(* SpecToolCall: one tool call through the handler of the stdio adapter    *)
(* or of the HTTP adapter.                                                 *)
(*                                                                         *)
(* call = [op, adapter, name]; ret = [pc, operation, awaits, thrown,       *)
(* response]: the operation the switch dispatched to, the awaits it has    *)
(* yet to pass (the first is the one it is suspended at), the value thrown *)
(* inside the try block and the response of the handler.  While the        *)
(* operation is suspended other operations act on the store.  Tool names   *)
(* and messages are strings.                                               *)
(***************************************************************************)
\* the cases of the switch of each adapter, with the operation each calls
ToolCases ==
    [stdio |-> [index_local_project         |-> "indexLocalProject",
                search_codebase             |-> "searchCodebase",
                list_indexed_projects       |-> "listIndexedProjects",
                get_embedding_provider_info |-> "getEmbeddingProviderInfo"],
     http  |-> [search_code                 |-> "searchCode",
                search_by_file_type         |-> "searchByFileType",
                get_file_content            |-> "getFileContent",
                list_indexed_projects       |-> "listIndexedProjects",
                index_local_project         |-> "indexLocalProject",
                get_embedding_provider_info |-> "getEmbeddingProviderInfo"]]

\* the tool names of the calls: the cases of both switches, the empty name
\* and a name that is no tool
ToolNames ==
    DOMAIN ToolCases.stdio \cup DOMAIN ToolCases.http \cup {"", "delete_project"}

\* the awaits an operation passes when each resolves with something to go
\* on with: for indexLocalProject, on a project of one file,
\* fs.stat(project_path), the getCollection and createCollection of
\* getOrCreateCollection, fs.readdir of getFilesToIndex, fs.stat and
\* processFileWithStreaming of the file, and collection.add; for
\* getEmbeddingProviderInfo, under the ollama provider, fetch and
\* response.json
OperationAwaits(operation) ==
    IF operation = "indexLocalProject"
    THEN <<"stat", "getCollection", "createCollection", "readdir",
           "fileStat", "stream", "add">>
    ELSE IF operation \in {"searchCodebase", "searchCode", "searchByFileType"}
    THEN <<"getCollection", "createCollection", "query">>
    ELSE IF operation \in {"listIndexedProjects", "getFileContent"}
    THEN <<"getCollection", "createCollection", "get">>
    ELSE <<"fetch", "json">>

\* the awaits whose rejection the operation throws on, with the message it
\* throws; the rejections of the others are caught inside the operation
AwaitFailures ==
    [stat             |-> "Cannot access project path: /x",
     createCollection |-> "createCollection failed",
     add              |-> "collection.add failed",
     query            |-> "collection.query failed",
     get              |-> "collection.get failed"]

\* the awaits the operation can have yet to pass once the await it is
\* suspended at has settled without the operation throwing.  It resolves:
\* the next one follows, createCollection being skipped when getCollection
\* found the collection.  getCollection rejects (there is no collection, or
\* the store failed): the bare catch calls createCollection.  fs.readdir,
\* the stat or the stream of the file, fetch or response.json reject, which
\* the operation catches itself, or they resolve with no file, no chunk or
\* a response that is not ok: nothing is awaited any more and the operation
\* returns.  createCollection resolves only when there is no collection.
SettledAwaits(awaits, exists) ==
    (IF Head(awaits) = "getCollection"
     THEN {Tail(awaits)} \cup (IF exists THEN {Tail(Tail(awaits))} ELSE {})
     ELSE IF Head(awaits) = "createCollection" /\ exists
     THEN {}
     ELSE {Tail(awaits)})
    \cup (IF Head(awaits) \in {"readdir", "fileStat", "stream", "fetch", "json"}
          THEN {<<>>}
          ELSE {})

\* the messages of the failures an operation can end with
FailureMessages(operation) ==
    {AwaitFailures[a] : a \in DOMAIN AwaitFailures \cap
        {OperationAwaits(operation)[k] :
            k \in 1..Len(OperationAwaits(operation))}}

\* the values an operation can throw: an Error with a message, or a value
\* that is no Error
Throwables(operation) ==
    [isError : BOOLEAN, message : FailureMessages(operation)]

\* Dispatch with one switch for both adapters, holding the cases of either
DispatchSharedSwitch(adapter, name) ==
    IF name \in DOMAIN ToolCases.stdio \cup DOMAIN ToolCases.http
    THEN LET operation == IF name \in DOMAIN ToolCases.http
                          THEN ToolCases.http[name]
                          ELSE ToolCases.stdio[name]
         IN  [pc |-> "operation", operation |-> operation,
              awaits |-> OperationAwaits(operation)]
    ELSE [pc |-> "thrown", operation |-> "none",
          thrown |-> [isError |-> TRUE,
                      message |-> "Unknown tool: " \o name]]

\* the switch: the operation called for the tool name, suspended at the
\* first of its awaits, or the Error of the default case
Dispatch(adapter, name) ==
    IF name \in DOMAIN ToolCases[adapter]
    THEN [pc |-> "operation", operation |-> ToolCases[adapter][name],
          awaits |-> OperationAwaits(ToolCases[adapter][name])]
    ELSE [pc |-> "thrown", operation |-> "none",
          thrown |-> [isError |-> TRUE,
                      message |-> "Unknown tool: " \o name]]

\* CatchBlock with the Error of the default case thrown on to the transport
CatchBlockForOperations(st) ==
    IF st.operation = "none"
    THEN [st EXCEPT !.pc = "propagated"]
    ELSE [pc |-> "returned", operation |-> st.operation, thrown |-> st.thrown,
          response |-> [type |-> "text",
                        text |-> "Error: " \o st.thrown.message]]

\* the catch block of the handler: error.message of an Error and
\* String(error) of any other value, after "Error: "
CatchBlock(st) ==
    [pc |-> "returned", operation |-> st.operation, thrown |-> st.thrown,
     response |-> [type |-> "text",
                   text |-> "Error: " \o st.thrown.message]]

InitToolCall ==
    /\ ChunkerIdle
    /\ maxChunkSize = 1
    /\ batchSize = 1
    /\ IndexIdle
    /\ call \in [op : {"tool_call"}, adapter : {"stdio", "http"},
                 name : ToolNames]
    /\ ret = [pc |-> "request"]

\* the CallToolRequestSchema handler of the stdio adapter, up to the call
\* of the operation
StdioCallTool ==
    /\ call.op = "tool_call"
    /\ call.adapter = "stdio"
    /\ ret.pc = "request"
    /\ ret' = Dispatch("stdio", call.name)
    /\ UNCHANGED <<chunkerVars, indexVars, call>>

\* callTool of the HTTP adapter, up to the call of the operation
HttpCallTool ==
    /\ call.op = "tool_call"
    /\ call.adapter = "http"
    /\ ret.pc = "request"
    /\ ret' = Dispatch("http", call.name)
    /\ UNCHANGED <<chunkerVars, indexVars, call>>

\* the await the operation is suspended at settles and the operation runs
\* on to its next await; createCollection has created the collection
AwaitSettles ==
    /\ call.op = "tool_call"
    /\ ret.pc = "operation"
    /\ \E rest \in SettledAwaits(ret.awaits, store.exists) :
           /\ rest # <<>>
           /\ ret' = [ret EXCEPT !.awaits = rest]
    /\ store' = IF Head(ret.awaits) = "createCollection"
                THEN [exists |-> TRUE, records |-> NoRecords]
                ELSE store
    /\ UNCHANGED <<chunkerVars, batchSize, loc, clock, invocations,
                   storeBefore, addLog, call>>

\* the await the operation is suspended at settles and the operation, with
\* nothing more to await, returns its response, which the handler returns;
\* collection.add has written the chunk of the project
OperationReturns ==
    /\ call.op = "tool_call"
    /\ ret.pc = "operation"
    /\ <<>> \in SettledAwaits(ret.awaits, store.exists)
    /\ ret' = [pc |-> "returned", operation |-> ret.operation,
               thrown |-> [isError |-> FALSE, message |-> "none"],
               response |-> [type |-> "text", text |-> ret.operation]]
    /\ store' = IF Head(ret.awaits) = "add"
                THEN [store EXCEPT !.records =
                         (RecordTable[3].id :> RecordTable[3].record) @@ @]
                ELSE store
    /\ UNCHANGED <<chunkerVars, batchSize, loc, clock, invocations,
                   storeBefore, addLog, call>>

\* the await the operation is suspended at rejects and the operation throws:
\* an Error of its own after fs.stat, the value the store rejected with
\* otherwise
OperationThrows ==
    /\ call.op = "tool_call"
    /\ ret.pc = "operation"
    /\ Head(ret.awaits) \in DOMAIN AwaitFailures
    /\ \E t \in Throwables(ret.operation) :
           /\ t.message = AwaitFailures[Head(ret.awaits)]
           /\ Head(ret.awaits) = "stat" => t.isError
           /\ ret' = [pc |-> "thrown", operation |-> ret.operation,
                      thrown |-> t]
    /\ UNCHANGED <<chunkerVars, indexVars, call>>

\* the catch block
HandlerCatches ==
    /\ call.op = "tool_call"
    /\ ret.pc = "thrown"
    /\ ret' = CatchBlock(ret)
    /\ UNCHANGED <<chunkerVars, indexVars, call>>

NextToolCall ==
    \/ StdioCallTool
    \/ HttpCallTool
    \/ AwaitSettles
    \/ OtherOperation("tool_call", {"operation"})
    \/ OperationReturns
    \/ OperationThrows
    \/ HandlerCatches

SpecToolCall == InitToolCall /\ [][NextToolCall]_vars

(***************************************************************************)
(* SpecSanitize: the project ids and the chunk ids index_local_project     *)
(* derives for two project names.                                          *)
(*                                                                         *)
(* call = [op, names]; ret = [pc, projectIds, again, firstIds]: the ids    *)
(* of the two names, the ids of those ids and the id each run gives its    *)
(* first chunk.                                                            *)
(***************************************************************************)
\* the characters project names are made of: an upper-case letter, a
\* lower-case letter, a digit, a character outside [a-z0-9] and "_"
NameChars == {"A", "a", "0", "-", "_"}

\* the project names of at most MaxNameLen characters
NamesUpTo(n) == UNION {[1..k -> NameChars] : k \in 0..n}

InitSanitize ==
    /\ ChunkerIdle
    /\ maxChunkSize = 1
    /\ batchSize = 1
    /\ IndexIdle
    /\ call \in [op : {"sanitizeProjectId"},
                 names : [1..2 -> NamesUpTo(MaxNameLen)]]
    /\ ret = [pc |-> "request"]

\* const projectId = this.sanitizeProjectId(project_name), for both names,
\* and the id of the first chunk of each
SanitizeNames ==
    /\ call.op = "sanitizeProjectId"
    /\ ret.pc = "request"
    /\ ret' = [pc         |-> "returned",
               projectIds |-> [r \in 1..2 |-> SanitizeProjectId(call.names[r])],
               again      |-> [r \in 1..2 |->
                                  SanitizeProjectId(
                                      SanitizeProjectId(call.names[r]))],
               firstIds   |-> [r \in 1..2 |->
                                  ChunkId(SanitizeProjectId(call.names[r]), 0)]]
    /\ UNCHANGED <<chunkerVars, indexVars, call>>

SpecSanitize == InitSanitize /\ [][SanitizeNames]_vars

(***************************************************************************)
(* SpecIndexThenRead: index_local_project invocations, one after the       *)
(* other, and then one get_file_content call, made when no invocation is   *)
(* in flight.                                                              *)
(***************************************************************************)
InitIndexThenRead ==
    /\ ChunkerIdle
    /\ maxChunkSize = MaxChunkSizeArg
    /\ batchSize = MaxBatchSize
    /\ IndexIdle
    /\ call \in [op : {"get_file_content"}, file_path : FilePathArgs]
    /\ ret = [pc |-> "request"]

\* the orders of the elements of the set S
RECURSIVE Orders(_)
Orders(S) ==
    IF S = {} THEN {<<>>}
    ELSE UNION {{<<x>> \o o : o \in Orders(S \ {x})} : x \in S}

\* the answers collection.get({where: {k: {"$eq": v}}}) can give: the records
\* that pass, in one of the store's orders
GetWhereAnswers(records, k, v) ==
    {[i \in DOMAIN o |-> records[o[i]]] :
        o \in Orders({id \in DOMAIN records : WhereEq(records[id], k, v)})}

\* getFileContent, called when no invocation of index_local_project is in
\* flight, up to the end of await getCollection
GetFileContentBetweenRuns ==
    /\ loc.pc \in {"idle", "done"}
    /\ CallGetCollection("get_file_content", "request", "get")

\* getFileContent from the end of await collection.get
GetFileContentAfterRuns ==
    /\ call.op = "get_file_content"
    /\ ret.pc = "get"
    /\ \E got \in GetWhereAnswers(store.records, "file_path", call.file_path) :
           ret' = FileContentOf(got)
    /\ UNCHANGED <<chunkerVars, indexVars, call>>

\* the invocations come first, one after the other; the scenario ends with
\* the read, during which no other operation is in flight
NextIndexThenRead ==
    \/ ret.pc = "request" /\ Next
    \/ GetFileContentBetweenRuns
    \/ CallCreateCollection("get_file_content", "get")
    \/ GetFileContentAfterRuns

SpecIndexThenRead == InitIndexThenRead /\ [][NextIndexThenRead]_vars

(***************************************************************************)
(* SpecDefaultExcludes: one call of getFilesToIndex with the default       *)
(* exclude patterns, as indexLocalProject makes it when the caller gives   *)
(* no exclude_patterns.                                                    *)
(***************************************************************************)
\* getDefaultExcludePatterns
GetDefaultExcludePatterns ==
    <<
       <<"n", "o", "d", "e", "_", "m", "o", "d", "u", "l", "e", "s">>,
       <<"n", "o", "d", "e", "_", "m", "o", "d", "u", "l", "e", "s", "/", "*", "*">>,
       <<".", "g", "i", "t">>,
       <<".", "g", "i", "t", "/", "*", "*">>,
       <<"d", "i", "s", "t">>,
       <<"d", "i", "s", "t", "/", "*", "*">>,
       <<"b", "u", "i", "l", "d">>,
       <<"b", "u", "i", "l", "d", "/", "*", "*">>,
       <<"o", "u", "t">>,
       <<"o", "u", "t", "/", "*", "*">>,
       <<"c", "o", "v", "e", "r", "a", "g", "e">>,
       <<"c", "o", "v", "e", "r", "a", "g", "e", "/", "*", "*">>,
       <<"_", "_", "p", "y", "c", "a", "c", "h", "e", "_", "_">>,
       <<"_", "_", "p", "y", "c", "a", "c", "h", "e", "_", "_", "/", "*", "*">>,
       <<"v", "e", "n", "v">>,
       <<"v", "e", "n", "v", "/", "*", "*">>,
       <<".", "v", "e", "n", "v">>,
       <<".", "v", "e", "n", "v", "/", "*", "*">>,
       <<".", "n", "e", "x", "t">>,
       <<".", "n", "e", "x", "t", "/", "*", "*">>,
       <<"t", "a", "r", "g", "e", "t">>,
       <<"t", "a", "r", "g", "e", "t", "/", "*", "*">>,
       <<".", "c", "a", "c", "h", "e">>,
       <<".", "c", "a", "c", "h", "e", "/", "*", "*">>,
       <<"*", ".", "l", "o", "g">>,
       <<"*", ".", "t", "m", "p">> >>

InitDefaultExcludes ==
    /\ ChunkerIdle
    /\ maxChunkSize = 1
    /\ batchSize = 1
    /\ IndexIdle
    /\ call \in [op : {"getFilesToIndex"},
                 includePatterns : PatternLists,
                 excludePatterns : {GetDefaultExcludePatterns},
                 unreadable : SUBSET TreeDirs]
    /\ ret = [pc |-> "request"]

SpecDefaultExcludes == InitDefaultExcludes /\ [][NextDiscover]_vars

(***************************************************************************)
(* Properties of the streaming chunker (checked under SpecChunker).        *)
(***************************************************************************)
\* the contents of a sequence of chunks
Contents(cs) == [i \in 1..Len(cs) |-> cs[i].content]

\* the texts of ts joined with a newline between consecutive ones
RECURSIVE JoinNL(_)
JoinNL(ts) ==
    IF ts = <<>> THEN <<>>
    ELSE IF Len(ts) = 1 THEN ts[1]
    ELSE JoinNL(SubSeq(ts, 1, Len(ts) - 1)) \o NL \o ts[Len(ts)]

\* s without any of its whitespace characters
StripWhitespace(s) == SelectSeq(s, LAMBDA c : ~IsWhitespace(c))

\* TRUE iff text t occurs in text s
Occurs(t, s) ==
    \E i \in 1..(Len(s) - Len(t) + 1) : SubSeq(s, i, i + Len(t) - 1) = t

\* TRUE iff text s ends with text t
EndsWith(s, t) ==
    /\ Len(t) <= Len(s)
    /\ SubSeq(s, Len(s) - Len(t) + 1, Len(s)) = t

\* the text has no line break in it: it is one line
IsOneLine(s) == \A i \in 1..Len(s) : s[i] # "\n"

\* C1: every emitted chunk has content length at most maxChunkSize, the
\* joining newlines included, unless it is one single line that is itself
\* longer than maxChunkSize.
ChunkSizeBound ==
    \A i \in 1..Len(chunks) :
        \/ Len(chunks[i].content) <= maxChunkSize
        \/ /\ IsOneLine(chunks[i].content)
           /\ Len(chunks[i].content) > maxChunkSize

\* C2: the chunk_index values of the emitted chunks are 0, 1, ..., N-1 in
\* emission order, whatever lines were dropped.
ChunkContiguity ==
    \A i \in 1..Len(chunks) : chunks[i].chunk_index = i - 1

\* C2 witness: a resolved call that emitted several chunks although a line
\* before the last chunk was dropped as oversized.
ChunkContiguityWitness ==
    /\ settled = "resolved"
    /\ Len(chunks) >= 2
    /\ Len(file) = MaxLines
    /\ Len(LineOf(file, 2)) > LineLimit

\* the consecutive groups of 1..n cut after the positions in cuts, in order
GroupsOf(n, cuts) ==
    LET ends   == cuts \cup {n}
        starts == {1} \cup {c + 1 : c \in cuts}
        Nth(k) == CHOOSE e \in ends : Cardinality({d \in ends : d < e}) = k - 1
        Start(e) == CHOOSE b \in starts :
                        /\ b <= e
                        /\ \A b2 \in starts : b2 <= e => b2 <= b
    IN  [k \in 1..Cardinality(ends) |-> <<Start(Nth(k)), Nth(k)>>]

\* what trimming each group of lines, joined by newlines, gives; a last
\* group that trims to nothing gives no chunk
TrimmedGroups(ls, cuts) ==
    LET gs    == GroupsOf(Len(ls), cuts)
        texts == [k \in 1..Len(gs) |-> Trim(JoinNL(SubSeq(ls, gs[k][1], gs[k][2])))]
    IN  IF texts[Len(texts)] = <<>>
        THEN SubSeq(texts, 1, Len(texts) - 1)
        ELSE texts

\* C3: for a file whose lines are all within the ceiling, the chunks of a
\* resolved call are the original lines cut into consecutive groups, in
\* order, each group joined by newlines and trimmed (a last group of blank
\* lines gives no chunk); so joining the chunks with newlines gives back the
\* original text up to the whitespace at the chunk ends.
ReconstructionLaw ==
    (/\ settled = "resolved"
     /\ \A i \in 1..Len(file) : Len(LineOf(file, i)) <= LineLimit)
    =>
    /\ IF file = <<>>
       THEN chunks = <<>>
       ELSE \E cuts \in SUBSET (1..(Len(file) - 1)) :
                Contents(chunks) = TrimmedGroups(LinesOf(file), cuts)
    /\ StripWhitespace(JoinNL(Contents(chunks)))
         = StripWhitespace(JoinNL(LinesOf(file)))

\* C3 witness: a resolved call on a file of short lines, with a blank line
\* in it, that was cut into several chunks.
ReconstructionLawWitness ==
    /\ settled = "resolved"
    /\ Len(file) = MaxLines
    /\ \A i \in 1..Len(file) : Len(LineOf(file, i)) <= LineLimit
    /\ \E i \in 1..Len(file) : LineOf(file, i) = <<" ", "d", " ">>
    /\ Len(chunks) >= 2

\* the oversized lines among the first n lines of the file
OversizedLines(n) ==
    {LineOf(file, i) : i \in {j \in 1..n : Len(LineOf(file, j)) > LineLimit}}

\* C4: a 'line' event with a line above the ceiling changes neither the
\* buffer, nor the emitted chunks, nor the next chunk_index, and no emitted
\* chunk contains such a line; a 'line' event with a line of at most the
\* ceiling puts the line at the end of the buffer.
OversizedLineDrop ==
    [][/\ lineCount' = lineCount + 1 =>
            IF Len(LineOf(file, lineCount')) > LineLimit
            THEN UNCHANGED <<currentChunk, chunks, chunkIndex>>
            ELSE EndsWith(currentChunk', LineOf(file, lineCount'))
       /\ \A i \in 1..Len(chunks') :
            \A l \in OversizedLines(lineCount') : ~Occurs(l, chunks'[i].content)
      ]_vars

\* C4 witness: a resolved call in which an oversized line arrived at a
\* non-empty buffer and a line of exactly the ceiling became a chunk.
OversizedLineDropWitness ==
    /\ settled = "resolved"
    /\ Len(file) = MaxLines
    /\ Len(LineOf(file, 1)) = LineLimit
    /\ Len(LineOf(file, 2)) > LineLimit
    /\ Len(chunks) = 2
    /\ chunks[1].content = LineOf(file, 1)

(***************************************************************************)
(* Properties of index_local_project and storeChunksInBatches (checked     *)
(* under Spec).                                                            *)
(***************************************************************************)
\* the ids of the positions 0..N-1 of the invocation's chunk list
RunIds == [k \in 1..Len(loc.chunks) |-> ChunkId(loc.projectId, k - 1)]

RunIdSet == {RunIds[k] : k \in 1..Len(loc.chunks)}

\* the sequences of ss, one after the other
RECURSIVE Flatten(_)
Flatten(ss) ==
    IF ss = <<>> THEN <<>>
    ELSE Flatten(SubSeq(ss, 1, Len(ss) - 1)) \o ss[Len(ss)]

\* TRUE iff the record under id is what it was when the invocation started
Untouched(id) ==
    IF id \in DOMAIN storeBefore.records
    THEN /\ id \in DOMAIN store.records
         /\ store.records[id] = storeBefore.records[id]
    ELSE id \notin DOMAIN store.records

\* the invocation's collection.add calls so far all succeeded but the last
OnlyLastAddFailed ==
    /\ addLog # <<>>
    /\ ~addLog[Len(addLog)].ok

\* C5: the add calls of an invocation are the batches at offsets 0,
\* batchSize, 2*batchSize, ... in this order; after a failed add nothing more
\* is added and the invocation has ended with an error, not with the success
\* summary; the batches before the failed one are in the store, the chunks
\* from the failed batch on are not written.
BatchWriteAbort ==
    /\ \A b \in 1..Len(addLog) :
          /\ addLog[b].ids = BatchIds(loc.chunks, (b - 1) * batchSize, batchSize,
                                      loc.projectId)
          /\ b < Len(addLog) => addLog[b].ok
          /\ addLog[b].ok =>
                \A idx \in 1..Len(addLog[b].ids) :
                    /\ addLog[b].ids[idx] \in DOMAIN store.records
                    /\ store.records[addLog[b].ids[idx]]
                         = StoredRecord(loc.chunks[(b - 1) * batchSize + idx])
    /\ OnlyLastAddFailed =>
          /\ loc.pc = "done"
          /\ loc.result.kind = "error"
          /\ \A k \in ((Len(addLog) - 1) * batchSize + 1)..Len(loc.chunks) :
                Untouched(RunIds[k])

\* C5 witness: the second add of an invocation failed while a third batch
\* was still to be written.
BatchWriteAbortWitness ==
    /\ loc.pc = "done"
    /\ Len(addLog) = 2
    /\ ~addLog[2].ok
    /\ Len(loc.chunks) > 2 * batchSize

\* C6: when an invocation of N > 0 chunks ends with every write done, the
\* ids of its add calls, in call order, are the ids of the positions
\* 0, ..., N-1, pairwise distinct; the chunk at position k is stored under
\* the id of k; every batch has batchSize ids but the last, which has at
\* most batchSize; and there are ceil(N / batchSize) add calls.
BatchIdsExact ==
    (/\ loc.pc = "done"
     /\ loc.result.kind = "success"
     /\ Len(loc.chunks) > 0)
    =>
    /\ Flatten([b \in 1..Len(addLog) |-> addLog[b].ids]) = RunIds
    /\ Cardinality(RunIdSet) = Len(loc.chunks)
    /\ \A k \in 1..Len(loc.chunks) :
          /\ RunIds[k] \in DOMAIN store.records
          /\ store.records[RunIds[k]] = StoredRecord(loc.chunks[k])
    /\ \A b \in 1..(Len(addLog) - 1) : Len(addLog[b].ids) = batchSize
    /\ Len(addLog[Len(addLog)].ids) \in 1..batchSize
    /\ Len(addLog) = (Len(loc.chunks) + batchSize - 1) \div batchSize

\* C6 witness: a successful invocation whose last batch is shorter than
\* batchSize and in which a chunk's position differs from its chunk_index.
BatchIdsExactWitness ==
    /\ loc.pc = "done"
    /\ loc.result.kind = "success"
    /\ Len(addLog) >= 2
    /\ Len(addLog[Len(addLog)].ids) < batchSize
    /\ \E k \in 1..Len(loc.chunks) : loc.chunks[k].chunk_index # k - 1

\* C7: an invocation deletes no record and writes only under the ids of the
\* positions 0..M-1 of its own M chunks: every other record of the store,
\* those of an earlier run with sequence numbers M and above included, is
\* what it was when the invocation started.
ReindexLeavesOrphans ==
    /\ \A id \in DOMAIN storeBefore.records :
          /\ id \in DOMAIN store.records
          /\ id \notin RunIdSet => store.records[id] = storeBefore.records[id]
    /\ \A id \in DOMAIN store.records :
          id \notin DOMAIN storeBefore.records => id \in RunIdSet

\* C7 witness: the second invocation, under the project name of the first,
\* ended with all its M chunks written, and the store still has a record of
\* that name under a sequence number of M or above.
ReindexLeavesOrphansWitness ==
    /\ invocations = 2
    /\ loc.pc = "done"
    /\ loc.result.kind = "success"
    /\ Len(loc.chunks) > 0
    /\ Len(addLog) > 0
    /\ \E k \in Len(loc.chunks)..(Len(loc.chunks) + 2) :
          /\ ChunkId(loc.projectId, k) \in DOMAIN store.records
          /\ store.records[ChunkId(loc.projectId, k)].metadata.project_name
               = loc.project_name

\* C8: the chunks of one invocation agree on project_id, project_name,
\* project_path, source_type and indexed_at.
RunFieldsConstant ==
    \A a, b \in 1..Len(loc.chunks) :
        /\ loc.chunks[a].project_id = loc.chunks[b].project_id
        /\ loc.chunks[a].project_name = loc.chunks[b].project_name
        /\ loc.chunks[a].project_path = loc.chunks[b].project_path
        /\ loc.chunks[a].source_type = loc.chunks[b].source_type
        /\ loc.chunks[a].indexed_at = loc.chunks[b].indexed_at

\* C9: an invocation whose project_path is missing or is no directory has
\* ended with the path error, with no file discovered or chunked, no add
\* call, and the store (the existence of the collection included) as it was.
PathErrorNoEffect ==
    (/\ loc.pc # "idle"
     /\ StatKind(loc.project_path) # "dir")
    =>
    /\ loc.pc = "done"
    /\ loc.result = [kind |-> "error", message |-> "Cannot access project path"]
    /\ loc.files = <<>>
    /\ loc.fileIdx = 0
    /\ loc.chunks = <<>>
    /\ addLog = <<>>
    /\ store = storeBefore

\* C9 witness: the first invocation was given a regular file as project_path
\* and ended; the collection still does not exist.
PathErrorNoEffectWitness ==
    /\ invocations = 1
    /\ loc.pc = "done"
    /\ StatKind(loc.project_path) = "file"
    /\ ~store.exists

\* a chunk without the fields index_local_project adds
Untagged(c) ==
    [content |-> c.content, file_path |-> c.file_path,
     file_type |-> c.file_type, chunk_index |-> c.chunk_index]

\* the chunks of the files at the positions 1..n of the discovered list whose
\* processing did not fail, in discovery order
RECURSIVE ChunksOfProcessed(_)
ChunksOfProcessed(n) ==
    IF n = 0 THEN <<>>
    ELSE ChunksOfProcessed(n - 1)
           \o (IF n \in loc.failed
               THEN <<>>
               ELSE FileChunks(loc.files[n], loc.project_path, maxChunkSize))

\* C10: the chunk list of an invocation is made of all the chunks of the
\* files processed without failure, in discovery order, and of no chunk of a
\* file whose processing failed; 'Files processed' counts the files that did
\* not fail; and an invocation with failed files whose writes all succeed
\* ends with the success summary.
FileFailureIsolated ==
    /\ [k \in 1..Len(loc.chunks) |-> Untagged(loc.chunks[k])]
         = ChunksOfProcessed(loc.fileIdx)
    /\ loc.processedFiles = loc.fileIdx - Cardinality(loc.failed)
    /\ (/\ loc.pc = "done"
        /\ loc.fileIdx > 0
        /\ \A b \in 1..Len(addLog) : addLog[b].ok)
       =>
       /\ loc.fileIdx = Len(loc.files)
       /\ loc.result = [kind |-> "success",
                        files_processed |-> Len(loc.files) - Cardinality(loc.failed),
                        chunks_created |-> Len(loc.chunks)]

\* C10 witness: of three discovered files the second failed, and the
\* invocation ended with the success summary and the chunks of the others.
FileFailureIsolatedWitness ==
    /\ loc.pc = "done"
    /\ loc.result.kind = "success"
    /\ Len(loc.files) = 3
    /\ loc.failed = {2}
    /\ loc.files[1] = 1
    /\ Len(loc.chunks) >= 2

(***************************************************************************)
(* Properties of OllamaEmbeddingFunction.generate (checked under           *)
(* SpecEmbed).                                                             *)
(***************************************************************************)
\* C11: generate never raises; the requests are posted one at a time in
\* input order; there is one vector per text handled so far (the text whose
\* response is being read is not handled yet), in input order: 384 zeros for
\* a text whose request failed, the endpoint's vector for a text whose
\* request succeeded, whatever became of the other requests; and it returns
\* with one vector per input text.
GenerateFallback ==
    /\ ret.pc # "raised"
    /\ Len(ret.embeddings)
         = Len(ret.requests) - (IF ret.pc = "body" THEN 1 ELSE 0)
    /\ ret.requests = SubSeq(call.texts, 1, Len(ret.requests))
    /\ \A i \in 1..Len(ret.embeddings) :
          ret.embeddings[i] =
              IF ret.outcomes[i] = "ok"
              THEN EndpointEmbedding(call.texts[i], call.dim)
              ELSE [j \in 1..384 |-> 0]
    /\ ret.pc = "returned" => Len(ret.embeddings) = Len(call.texts)

\* C11 witness: a returned call in which the first request got a response
\* that was not ok, the second succeeded and the last threw.
GenerateFallbackWitness ==
    /\ ret.pc = "returned"
    /\ Len(call.texts) = MaxTexts
    /\ ret.outcomes[1] = "not_ok"
    /\ ret.outcomes[2] = "ok"
    /\ ret.outcomes[MaxTexts] = "network_error"
    /\ ret.embeddings[1] = ZeroVector
    /\ ret.embeddings[2] # ZeroVector

\* C12: the vectors of one call all have the same dimension.
SameDimension ==
    \A i, j \in 1..Len(ret.embeddings) :
        Len(ret.embeddings[i]) = Len(ret.embeddings[j])

(***************************************************************************)
(* Properties of the search operations (checked under SpecSearch).         *)
(***************************************************************************)
\* the caller supplied the argument k
Supplied(k) == k \in DOMAIN call.args

\* the where clause that keeps the records of project p
ProjectIdEquals(p) == [project_id |-> ("$eq" :> p)]

\* C13 as stated: through either adapter, the query has the equality filter
\* on project_id when project_filter is supplied and none otherwise, and it
\* asks for the caller's limit.
SearchFilterBothAdapters ==
    ret.pc = "returned" =>
        /\ Supplied("project_filter") =>
              /\ "where" \in DOMAIN ret.query
              /\ ret.query.where = ProjectIdEquals(call.args.project_filter)
        /\ ~Supplied("project_filter") => "where" \notin DOMAIN ret.query
        /\ Supplied("limit") => ret.query.nResults = call.args.limit

\* C13: through the stdio adapter (search_codebase) the query has the
\* equality filter project_id = project_filter when a non-empty
\* project_filter is supplied, so no record of another project is returned,
\* and no filter otherwise; it asks for the caller's limit, 10 by default.
\* Through the HTTP adapter (search_code) the query never has a filter,
\* whatever project_filter is, and asks for n_results, 10 by default,
\* whatever limit is.
SearchFilterPerAdapter ==
    ret.pc = "returned" =>
        /\ ret.query.queryTexts = <<call.args.query>>
        /\ "where" \in DOMAIN ret.query =>
              \A i \in 1..Len(ret.results) :
                  WhereEq(ret.results[i], "project_id",
                          call.args.project_filter)
        /\ Len(ret.results) <= ret.query.nResults
        /\ call.adapter = "stdio" =>
              /\ IF Supplied("project_filter") /\ call.args.project_filter # <<>>
                 THEN /\ "where" \in DOMAIN ret.query
                      /\ ret.query.where =
                             ProjectIdEquals(call.args.project_filter)
                 ELSE "where" \notin DOMAIN ret.query
              /\ ret.query.nResults =
                     IF Supplied("limit") THEN call.args.limit ELSE 10
        /\ call.adapter = "http" =>
              /\ "where" \notin DOMAIN ret.query
              /\ ret.query.nResults =
                     IF Supplied("n_results") THEN call.args.n_results ELSE 10

\* C13 witness: a search_codebase call with a project_filter and a limit,
\* against a collection that holds records of two projects, that returned
\* as many records as the limit allows.
SearchFilterPerAdapterWitness ==
    /\ ret.pc = "returned"
    /\ call.adapter = "stdio"
    /\ Supplied("project_filter")
    /\ Supplied("limit")
    /\ "where" \in DOMAIN ret.query
    /\ Len(ret.results) = call.args.limit
    /\ \E id \in DOMAIN store.records :
           /\ HasField(store.records[id], "project_id")
           /\ store.records[id].metadata.project_id # call.args.project_filter

(***************************************************************************)
(* Properties of get_file_content (checked under SpecFileContent).         *)
(***************************************************************************)
\* the ids of the stored records whose file_path is the argument
IdsOfFile ==
    {id \in DOMAIN store.records :
        /\ "metadata" \in DOMAIN store.records[id]
        /\ "file_path" \in DOMAIN store.records[id].metadata
        /\ store.records[id].metadata.file_path = call.file_path}

\* the chunk_index stored with a record, 0 if there is none
IndexOrZero(r) ==
    IF "chunk_index" \in DOMAIN r.metadata THEN r.metadata.chunk_index ELSE 0

\* C14: when records are stored under the file_path, the returned content is
\* the documents of exactly those records, each once, joined with newlines
\* in ascending chunk_index order (a missing chunk_index counting as 0),
\* whatever order the store answered in, and the reported chunk count is
\* the number of those records; when none is, the file is reported as not
\* found.
FileContentSorted ==
    ret.pc = "returned" =>
        IF IdsOfFile = {}
        THEN ret.kind = "not_found"
        ELSE /\ ret.kind = "file"
             /\ ret.chunkCount = Cardinality(IdsOfFile)
             /\ \E f \in [1..Len(ret.chunks) -> IdsOfFile] :
                    /\ \A i, j \in DOMAIN f : i # j => f[i] # f[j]
                    /\ \A i \in DOMAIN f : ret.chunks[i] = store.records[f[i]]
             /\ Len(ret.chunks) = Cardinality(IdsOfFile)
             /\ \A i, j \in 1..Len(ret.chunks) :
                    i < j => IndexOrZero(ret.chunks[i])
                                 <= IndexOrZero(ret.chunks[j])
             /\ ret.fullContent =
                    JoinNL([i \in 1..Len(ret.chunks) |->
                               ret.chunks[i].document])

\* C14 witness: the store answered with a chunk of index 1 before a chunk
\* of index 0 and a chunk without index, and the file was returned.
FileContentSortedWitness ==
    /\ ret.pc = "returned"
    /\ ret.kind = "file"
    /\ Len(ret.got) = 3
    /\ IndexOrZero(ret.got[1]) = 1
    /\ "chunk_index" \notin DOMAIN ret.got[3].metadata
    /\ ret.chunks # ret.got

(***************************************************************************)
(* Properties of list_indexed_projects (checked under SpecListProjects).   *)
(***************************************************************************)
\* the positions of the scanned records that carry the project id p
ScannedOf(p) ==
    {i \in 1..Len(ret.scanned) :
        /\ "metadata" \in DOMAIN ret.scanned[i]
        /\ "project_id" \in DOMAIN ret.scanned[i].metadata
        /\ ret.scanned[i].metadata.project_id = p}

\* the project ids the scanned records carry
ScannedProjectIds ==
    {ret.scanned[i].metadata.project_id :
        i \in {j \in 1..Len(ret.scanned) :
                  /\ "metadata" \in DOMAIN ret.scanned[j]
                  /\ "project_id" \in DOMAIN ret.scanned[j].metadata}}

\* the sum of the chunk_count of the aggregates ps
RECURSIVE SumChunkCounts(_)
SumChunkCounts(ps) ==
    IF ps = <<>> THEN 0
    ELSE ps[1].chunk_count + SumChunkCounts(Tail(ps))

\* C15: the call returns one aggregate per distinct project_id among the
\* scanned records; its chunk_count is the number of scanned records with
\* that project_id and its display fields are those of the first of them in
\* scan order; records without metadata or without project_id are not
\* counted; so the chunk_counts add up to the number of scanned records that
\* carry a project_id.
ProjectAggregates ==
    ret.pc = "returned" =>
        /\ {ret.projects[k].project_id : k \in 1..Len(ret.projects)}
               = ScannedProjectIds
        /\ Len(ret.projects) = Cardinality(ScannedProjectIds)
        /\ \A k \in 1..Len(ret.projects) :
              LET p == ret.projects[k].project_id
                  first == CHOOSE i \in ScannedOf(p) :
                               \A j \in ScannedOf(p) : i <= j
                  m == ret.scanned[first].metadata
              IN  /\ ret.projects[k].chunk_count = Cardinality(ScannedOf(p))
                  /\ ret.projects[k].project_name = m.project_name
                  /\ ret.projects[k].project_path = m.project_path
                  /\ ret.projects[k].source_type = m.source_type
                  /\ ret.projects[k].indexed_at = m.indexed_at
        /\ SumChunkCounts(ret.projects)
               = Cardinality(UNION {ScannedOf(p) : p \in ScannedProjectIds})

\* C15 witness: a scan that met a record without metadata first, then two
\* records of one project id stored under different project names.
ProjectAggregatesWitness ==
    /\ ret.pc = "returned"
    /\ Len(ret.scanned) = 3
    /\ "metadata" \notin DOMAIN ret.scanned[1]
    /\ Len(ret.projects) = 1
    /\ ret.projects[1].chunk_count = 2
    /\ ret.scanned[3].metadata.project_name # ret.projects[1].project_name

(***************************************************************************)
(* Properties of overlapping invocations (checked under SpecOverlap).      *)
(***************************************************************************)
\* the ids invocation r writes: one per chunk, numbered from 0
IdsOfRun(r) ==
    {ChunkId(ret.locs[r].projectId, n) : n \in 0..(Len(ret.locs[r].chunks) - 1)}

\* C16: nothing serialises the invocations: an invocation that has a batch
\* to write can write it whatever the other invocation is doing, also when
\* the other is between two of its own batch writes.  (The witness is the
\* state the claim says is reachable.)
BatchWritesNotSerialised ==
    \A r \in Runs :
        ret.locs[r].pc = "store" => ENABLED RunStoreBatch(r)

\* C16 witness: two invocations with different project names and the same
\* project id both ended with success after writing the same ids, and the
\* ids hold records of both: neither invocation's records are all there.
BatchWritesNotSerialisedWitness ==
    /\ \A r \in Runs : /\ ret.locs[r].pc = "done"
                       /\ ret.locs[r].result.kind = "success"
                       /\ Len(ret.locs[r].chunks) > 1
    /\ ret.locs[1].projectId = ret.locs[2].projectId
    /\ ret.locs[1].project_name # ret.locs[2].project_name
    /\ IdsOfRun(1) = IdsOfRun(2)
    /\ \A r \in Runs :
           \E id \in IdsOfRun(r) :
               store.records[id].metadata.project_name
                   = ret.locs[r].project_name

(***************************************************************************)
(* Properties of matchesPattern (checked under SpecMatch).                 *)
(***************************************************************************)
\* the pattern is X + "/**"
IsSubtreePattern(pattern) ==
    /\ Len(pattern) >= 3
    /\ pattern[Len(pattern) - 2] = "/"
    /\ pattern[Len(pattern) - 1] = "*"
    /\ pattern[Len(pattern)] = "*"

\* the pattern is "*." + e
IsExtensionPattern(pattern) ==
    /\ Len(pattern) >= 2
    /\ pattern[1] = "*"
    /\ pattern[2] = "."

\* p is X or starts with X + "/", for the pattern X + "/**"
UnderSubtree(p, pattern) ==
    LET n == Len(pattern) - 3
    IN  /\ Len(p) >= n
        /\ \A i \in 1..n : p[i] = pattern[i]
        /\ Len(p) > n => p[n + 1] = "/"

\* p ends with "." + e, for the pattern "*." + e
HasExtension(p, pattern) ==
    LET n == Len(pattern) - 1
    IN  /\ Len(p) >= n
        /\ \A i \in 1..n : p[Len(p) - n + i] = pattern[i + 1]

\* C18 as stated: for every pattern X + "/**" the result is true iff p is X
\* or starts with X + "/", and for every pattern "*." + e it is true iff p
\* ends with "." + e.
PatternFormsBoth ==
    ret.pc = "returned" =>
        /\ IsSubtreePattern(call.pattern) =>
              (ret.result <=> UnderSubtree(call.filePath, call.pattern))
        /\ IsExtensionPattern(call.pattern) =>
              (ret.result <=> HasExtension(call.filePath, call.pattern))

\* C18: for every pattern X + "/**" the result is true iff p is X or starts
\* with X + "/"; for every pattern "*." + e that does not end with "/**" it
\* is true iff p ends with "." + e.
PatternForms ==
    ret.pc = "returned" =>
        /\ IsSubtreePattern(call.pattern) =>
              (ret.result <=> UnderSubtree(call.filePath, call.pattern))
        /\ IsExtensionPattern(call.pattern) /\ ~IsSubtreePattern(call.pattern) =>
              (ret.result <=> HasExtension(call.filePath, call.pattern))

\* C18 witness: the pattern "a/**" was tested on "aa" and did not match it
\* ("node_modules/**" on "my_node_modules/x" has the same shape: the base
\* is a prefix that does not end at a "/").
PatternFormsWitness ==
    /\ ret.pc = "returned"
    /\ call.pattern = <<"a", "/", "*", "*">>
    /\ call.filePath = <<"a", "a">>
    /\ ~ret.result

(***************************************************************************)
(* Properties of getFilesToIndex (checked under SpecDiscover).             *)
(***************************************************************************)
\* the root-relative path of an entry of the tree
RelativeOf(p) == SubSeq(p, Len(RootDir) + 2, Len(p))

\* the directories of the tree that lie on the way from the root to p, the
\* root not among them
AncestorDirs(p) ==
    {d \in TreeDirs \ {RootDir} :
        /\ Len(d) < Len(p)
        /\ SubSeq(p, 1, Len(d) + 1) = d \o <<"/">>}

\* the relative path rel matches a pattern of the list
MatchesSome(rel, patterns) ==
    \E k \in 1..Len(patterns) : MatchesPattern(rel, patterns[k])

\* the non-directory entries that no exclude pattern removes, directly or
\* through a directory above them, and that the include patterns keep
KeptFiles ==
    {TreeTable[k].path : k \in
        {j \in 1..Len(TreeTable) :
            /\ TreeTable[j].kind = "file"
            /\ \A d \in AncestorDirs(TreeTable[j].path) :
                   ~MatchesSome(RelativeOf(d), call.excludePatterns)
            /\ ~MatchesSome(RelativeOf(TreeTable[j].path), call.excludePatterns)
            /\ \/ call.includePatterns = <<>>
               \/ MatchesSome(RelativeOf(TreeTable[j].path),
                              call.includePatterns)}}

\* the entries whose directories, from the root down, could all be read
ReadableFiles ==
    {TreeTable[k].path : k \in
        {j \in 1..Len(TreeTable) :
            \A d \in AncestorDirs(TreeTable[j].path) \cup {RootDir} :
                d \notin call.unreadable}}

\* C17 as stated: the result holds, each exactly once, precisely the kept
\* files.
DiscoveredExactly ==
    ret.pc = "returned" =>
        /\ {ret.allFiles[i] : i \in 1..Len(ret.allFiles)} = KeptFiles
        /\ \A i, j \in 1..Len(ret.allFiles) :
               i # j => ret.allFiles[i] # ret.allFiles[j]

\* C17: the result holds, each exactly once, precisely the kept files that
\* lie in directories which could be read, from the root down (a directory
\* whose read fails is skipped with all that is below it).  Include patterns
\* are not applied to directories: a file is kept whether or not the
\* directories above it match an include pattern.  A file removed while the
\* call was suspended is in the result when its directory was read before
\* the removal and is not when it was read after; with no removal the result
\* is exactly the kept files in readable directories.
DiscoveredReadable ==
    ret.pc = "returned" =>
        LET found == {ret.allFiles[i] : i \in 1..Len(ret.allFiles)}
        IN  /\ found \subseteq KeptFiles \cap ReadableFiles
            /\ (KeptFiles \cap ReadableFiles) \ ret.removed \subseteq found
            /\ \A i, j \in 1..Len(ret.allFiles) :
                   i # j => ret.allFiles[i] # ret.allFiles[j]

\* C17 witness: with two include patterns and an exclude pattern, every
\* directory readable and nothing removed, the call returned a file two
\* directories down that only the second include pattern matches, one of
\* its directories matching no include pattern, and left out a file under
\* an excluded directory that the patterns themselves keep.
DiscoveredReadableWitness ==
    /\ ret.pc = "returned"
    /\ ret.removed = {}
    /\ call.unreadable = {}
    /\ Len(call.includePatterns) = 2
    /\ call.excludePatterns # <<>>
    /\ \E i \in 1..Len(ret.allFiles) :
           /\ Cardinality(AncestorDirs(ret.allFiles[i])) = 2
           /\ ~MatchesPattern(RelativeOf(ret.allFiles[i]),
                              call.includePatterns[1])
           /\ \E d \in AncestorDirs(ret.allFiles[i]) :
                  ~MatchesSome(RelativeOf(d), call.includePatterns)
    /\ \E k \in 1..Len(TreeTable) :
           /\ TreeTable[k].kind = "file"
           /\ TreeTable[k].path \notin KeptFiles
           /\ ~MatchesSome(RelativeOf(TreeTable[k].path), call.excludePatterns)
           /\ MatchesSome(RelativeOf(TreeTable[k].path), call.includePatterns)

(***************************************************************************)
(* Properties of the tool-call handlers (checked under SpecToolCall).      *)
(***************************************************************************)
\* C19: in both adapters no exception leaves the handler.  A call that has
\* come to its end (no step of it is left) has returned a text response;
\* the step that follows a throw inside the try block, by the operation or
\* by the default case of the switch, returns the text response that is
\* "Error: " followed by the failure message; and a call whose tool name is
\* no case of the switch has returned "Error: Unknown tool: " and the name.
HandlerNeverThrows ==
    /\ [](~ENABLED NextToolCall =>
             /\ ret.pc = "returned"
             /\ ret.response.type = "text")
    /\ [][ret.pc = "thrown" =>
             /\ ret'.pc = "returned"
             /\ ret'.response = [type |-> "text",
                                 text |-> "Error: " \o ret.thrown.message]]_vars
    /\ [](ret.pc = "returned" /\ call.name \notin DOMAIN ToolCases[call.adapter]
             => ret.response.text = "Error: Unknown tool: " \o call.name)

\* C19 witness: a path error of index_local_project through the stdio
\* adapter was answered with the error text.
HandlerNeverThrowsWitness ==
    /\ ret.pc = "returned"
    /\ call.adapter = "stdio"
    /\ call.name = "index_local_project"
    /\ ret.thrown.isError
    /\ ret.response.text = "Error: Cannot access project path: /x"

(***************************************************************************)
(* Properties of sanitizeProjectId (checked under SpecSanitize).           *)
(***************************************************************************)
\* the characters of [a-z0-9_]
IdChars ==
    {"a", "b", "c", "d", "e", "f", "g", "h", "i", "j", "k", "l", "m",
     "n", "o", "p", "q", "r", "s", "t", "u", "v", "w", "x", "y", "z",
     "0", "1", "2", "3", "4", "5", "6", "7", "8", "9", "_"}

\* C20: a project id has only characters of [a-z0-9_]; the id of an id is
\* that id; equal names have equal ids; and two names with the same id give
\* their chunks the same ids.  (That distinct names can have the same id is
\* the witness.)
SanitizeLaws ==
    ret.pc = "returned" =>
        /\ \A r \in 1..2 :
              /\ \A i \in 1..Len(ret.projectIds[r]) :
                     ret.projectIds[r][i] \in IdChars
              /\ ret.again[r] = ret.projectIds[r]
        /\ call.names[1] = call.names[2] => ret.projectIds[1] = ret.projectIds[2]
        /\ ret.projectIds[1] = ret.projectIds[2] => ret.firstIds[1] = ret.firstIds[2]

\* C20 witness: two distinct names, one with an upper-case letter and a
\* character outside [a-z0-9], have the same id and the same first chunk id.
SanitizeLawsWitness ==
    /\ ret.pc = "returned"
    /\ call.names[1] # call.names[2]
    /\ call.names[1] = <<"A", "-">>
    /\ ret.projectIds[1] = ret.projectIds[2]
    /\ ret.firstIds[1] = ret.firstIds[2]

(***************************************************************************)
(* Reach of the operations through the adapters (checked under             *)
(* SpecToolCall).                                                          *)
(***************************************************************************)
\* the tool names of the core operation table; the search operation is
\* search_codebase in the stdio adapter and search_code in the HTTP adapter
TableNames(adapter) ==
    {"index_local_project", "search_by_file_type", "get_file_content",
     "list_indexed_projects", "get_embedding_provider_info"}
    \cup (IF adapter = "stdio" THEN {"search_codebase"} ELSE {"search_code"})

\* the operation of the core that a tool name of the table stands for
TableOperation(name) ==
    CASE name = "index_local_project"         -> "indexLocalProject"
      [] name = "search_codebase"             -> "searchCodebase"
      [] name = "search_code"                 -> "searchCode"
      [] name = "search_by_file_type"         -> "searchByFileType"
      [] name = "get_file_content"            -> "getFileContent"
      [] name = "list_indexed_projects"       -> "listIndexedProjects"
      [] name = "get_embedding_provider_info" -> "getEmbeddingProviderInfo"

\* the call was answered as an unknown tool, or is about to be
AnsweredUnknown ==
    /\ ret.pc \in {"thrown", "returned"}
    /\ ret.operation = "none"
    /\ ret.thrown.message = "Unknown tool: " \o call.name

\* C21 as stated: through either adapter a tool call naming an operation of
\* the table is dispatched to that operation and is not answered as an
\* unknown tool.
EveryOperationEveryAdapter ==
    ret.pc # "request" /\ call.name \in TableNames(call.adapter) =>
        /\ ~AnsweredUnknown
        /\ ret.operation = TableOperation(call.name)

\* C21: through either adapter a tool call naming index_local_project, the
\* search operation (search_codebase in the stdio adapter, search_code in
\* the HTTP adapter), list_indexed_projects or
\* get_embedding_provider_info is dispatched to that operation and is not
\* answered as an unknown tool; search_by_file_type and get_file_content are
\* dispatched through the HTTP adapter only, and through the stdio adapter
\* they are answered as an unknown tool.
OperationsPerAdapter ==
    ret.pc # "request" /\ call.name \in TableNames(call.adapter) =>
        IF /\ call.adapter = "stdio"
           /\ call.name \in {"search_by_file_type", "get_file_content"}
        THEN AnsweredUnknown
        ELSE /\ ~AnsweredUnknown
             /\ ret.operation = TableOperation(call.name)

\* C21 witness: get_file_content called through the stdio adapter was
\* answered as an unknown tool.
OperationsPerAdapterWitness ==
    /\ ret.pc = "returned"
    /\ call.adapter = "stdio"
    /\ call.name = "get_file_content"
    /\ ret.response.text = "Error: Unknown tool: get_file_content"

(***************************************************************************)
(* Emptiness of chunks (checked under SpecChunker).                        *)
(***************************************************************************)
\* C22: every chunk the chunker has emitted has content that is not empty
\* (the content is stored trimmed); so a file whose lines are all blank or
\* whitespace-only has no chunk.
ChunksNonEmpty ==
    /\ \A k \in 1..Len(chunks) : chunks[k].content # <<>>
    /\ (\A i \in 1..Len(file) : Trim(LineOf(file, i)) = <<>>) => chunks = <<>>

(***************************************************************************)
(* Properties of get_file_content after index runs (checked under          *)
(* SpecIndexThenRead).                                                     *)
(***************************************************************************)
\* C23: the content get_file_content returned is built from records of one
\* project and of one indexing run: the records have the same project_id,
\* and the project_name of one run.
FileContentSingleProject ==
    ret.pc = "returned" /\ ret.kind = "file" =>
        \A i, j \in 1..Len(ret.chunks) :
            /\ ret.chunks[i].metadata.project_id
                   = ret.chunks[j].metadata.project_id
            /\ ret.chunks[i].metadata.project_name
                   = ret.chunks[j].metadata.project_name

(***************************************************************************)
(* Properties of the default exclude patterns (checked under               *)
(* SpecDefaultExcludes).                                                   *)
(***************************************************************************)
\* the directory names the default exclude patterns name
ExcludedDirNames ==
    { <<"n", "o", "d", "e", "_", "m", "o", "d", "u", "l", "e", "s">>,
      <<".", "g", "i", "t">>,
      <<"d", "i", "s", "t">>,
      <<"b", "u", "i", "l", "d">>,
      <<"o", "u", "t">>,
      <<"c", "o", "v", "e", "r", "a", "g", "e">>,
      <<"_", "_", "p", "y", "c", "a", "c", "h", "e", "_", "_">>,
      <<"v", "e", "n", "v">>,
      <<".", "v", "e", "n", "v">>,
      <<".", "n", "e", "x", "t">>,
      <<"t", "a", "r", "g", "e", "t">>,
      <<".", "c", "a", "c", "h", "e">> }

\* C24: with the default exclude patterns, no returned file lies under a
\* directory named like an excluded directory, at whatever depth below the
\* root that directory is.
DefaultExcludesAnyDepth ==
    ret.pc = "returned" =>
        \A i \in 1..Len(ret.allFiles) :
            \A d \in AncestorDirs(ret.allFiles[i]) :
                BaseName(d) \notin ExcludedDirNames

(***************************************************************************)
(* Properties of getOrCreateCollection under overlapping invocations       *)
(* (checked under SpecOverlap).                                            *)
(***************************************************************************)
\* C25: whatever the interleaving of two invocations' get-then-create
\* sequences, no invocation fails because the collection it could not get
\* was created by the other before its own create.
GetOrCreateNeverFails ==
    \A r \in Runs :
        ~ /\ ret.locs[r].pc = "done"
          /\ ret.locs[r].result.kind = "error"
          /\ ret.locs[r].result.message = "Collection already exists"

====
